---- MODULE Spec2Model ----
(***************************************************************************)
(* Model of the lab backend (ethpandaops/lab, python):                     *)
(*   - SlotProcessor: the head / middle / backlog phases and process_slot  *)
(*     (backend/lab/modules/beacon/processors/slot.py)                     *)
(*   - StateManager flushes of state.json through S3Storage.store_atomic   *)
(*     (backend/lab/core/state.py, backend/lab/core/storage.py)            *)
(*   - Runner.stop (backend/lab/core/runner.py)                            *)
(*   - the modules' processor loops and Module.stop                        *)
(*   - one S3Storage client and StateManager.start                         *)
(*   - the attestation windows of a slot                                   *)
(*   - Runner.start, the signal handler and the exit code                  *)
(* SpecSlot drives the slot processor, SpecState the state managers, the   *)
(* object store and the runner shutdown, SpecRestart the phases around a   *)
(* kill, SpecModule the modules, SpecStorage the storage client,           *)
(* SpecWindows the attestation pipeline, SpecRunner and FairRunner the     *)
(* runner's life cycle, SpecCadence the timing of a processor loop,        *)
(* FairMiddle the middle task under a fair event loop, SpecStart repeated  *)
(* start() calls on one slot processor, SpecName the derivation of a       *)
(* node's username.                                                        *)
(***************************************************************************)
EXTENDS Integers, Sequences, FiniteSets, TLC

(***************************************************************************)
(* Bounds of the model.                                                    *)
(***************************************************************************)
\* stand-in for the 300-slot look-back of the middle phase (slot.py:497-498)
MiddleSpan == 1
\* number of slot boundaries the wall clock crosses in a run
MaxTicks == 1
\* the per-slot put counter saturates here
PutCap == 2
\* number of slot artifacts the bucket already holds when the process starts
MaxPublished == 1
\* number of times the process is killed and restarted
MaxCrashes == 1

\* BeaconNetworkConfig.head_lag_slots (default)
HeadLag == 2

\* slot returned by _calculate_target_backlog_slot (fork_epoch * 32)
BacklogTarget == 0

StartWall == HeadLag + 2 * MiddleSpan
MaxWall == StartWall + MaxTicks
Slots == 0..(MaxWall - HeadLag)

\* Python None in a slot field of a state dictionary
None == -1
NoCall == [slot |-> -1, found |-> FALSE, fetched |-> "none", put |-> FALSE, ok |-> FALSE]

Phases == {"head", "middle", "backlog"}
InProcessSlot == {"probe", "prereq", "secondary"}
Running == {"init", "loop", "sleep"} \cup InProcessSlot

VARIABLES
    wall,       \* network.clock.get_current_slot()
    artifacts,  \* slots whose key <module>/slots/<network>/<slot>.json exists
    puts,       \* per slot, number of storage.store calls issued by this process
    pc,         \* position of the head, middle and backlog tasks
    headSlot,   \* target_slot of the running head iteration
    midCur,     \* current_slot of _run_middle_processor
    midTarget,  \* target_slot of _run_middle_processor
    bkCur,      \* state.current_slot of _run_backlog_processor
    mem,        \* StateManager._state of the module: middle and backward keys
    call,       \* per phase, what its last finished process_slot call did
    probed,     \* per phase, the result of its last exists probe
    stopEv,     \* SlotProcessor._stop_event
    startPc,    \* position of SlotProcessor.start()
    bkLow       \* lowest slot the backlog phase has called process_slot for

slotVars == <<wall, artifacts, puts, pc, headSlot, midCur, midTarget, bkCur,
              mem, call, probed, stopEv, startPc, bkLow>>

VARIABLES
    disk,       \* the module's sub-map in state.json, as of its last flush
    crashed     \* number of times the process was killed and restarted

crashVars == <<disk, crashed>>

VARIABLES
    store,      \* the bucket: the objects state.json and temp/state.json
    smem,       \* per module, StateManager._state
    fpc,        \* per module, position of the flush task of its StateManager
    fdoc,       \* per module, full_state of its flush: the bytes it hands to store_atomic
    fgot,       \* per module, whether the download of that flush returned a document
    attempt,    \* per module, attempt of the copy loop in _copy
    fres,       \* per module, how its last store_atomic call ended
    overlap,    \* per module, whether another store_atomic of the key ran during its call
    runner,     \* the Runner: running, stopping or stopped
    faults      \* number of object-store calls that failed so far

stateVars == <<store, smem, fpc, fdoc, fgot, attempt, fres, overlap, runner, faults>>

VARIABLES
    enabled,        \* the modules enabled in the configuration
    rpc,            \* position of Runner.start: register, start, running, failed
    ridx,           \* index of the module Runner.start handles next
    regd,           \* keys of Runner.modules
    failedMods,     \* modules whose registration or start() raised
    ptask,          \* per module, position of its _run_processor task
    lastProcessed,  \* per module, the last_processed timestamp in its state
    iter,           \* per module, how the last process() iteration ended
    raised,         \* per module, whether a process() call of it has raised
    mstop,          \* per module, Module._stop_event
    mres,           \* per module, how its stop() call ended
    tracked,        \* per module, whether its task table holds the task
    now             \* datetime.now() in units of the clock

modVars == <<enabled, rpc, ridx, regd, failedMods, ptask, lastProcessed, iter,
             raised, mstop, mres, tracked, now>>

VARIABLES
    bucket,     \* the objects under state.json and temp/state.json
    sop,        \* the S3Storage operation in progress
    spc,        \* its position
    sdata,      \* the bytes handed to store or store_atomic
    sattempt,   \* attempt of the loop in _copy
    sleeps,     \* the delays _copy has slept in this call, in order
    reqs,       \* per client request, how many were issued since the operation was called
    sres,       \* how the last operation ended
    sgot,       \* the chunk the last get yielded
    sfail,      \* the step of store_atomic that raised
    stpc,       \* position of StateManager.start
    sname,      \* StateManager.name
    sstate,     \* StateManager._state
    sflush,     \* whether StateManager._flush_task was created
    sget,       \* how the get of StateManager.start ended
    sbefore,    \* the bucket when the operation or StateManager.start was called
    ncalls      \* number of operations the caller has issued

stoVars == <<bucket, sop, spc, sdata, sattempt, sleeps, reqs, sres, sgot, sfail,
             stpc, sname, sstate, sflush, sget, sbefore, ncalls>>

VARIABLES
    votes,      \* raw_data of the attestation query: validator -> earliest propagation time
    snapped,    \* what get_attestation_votes returns
    windows,    \* attestation_windows of transform_slot_data_for_storage
    wpc         \* position of the attestation pipeline

winVars == <<votes, snapped, windows, wpc>>

VARIABLES
    rs,         \* position of the main task in Runner.start and Runner.stop
    rexc,       \* the exception in flight in Runner.start
    rstop,      \* Runner._stop_event
    ch,         \* the warehouse client: none, created, started, stopped
    rmods,      \* the modules: none, registered, started, stopped
    rtasks,     \* the tasks other than the main task: none, running, ended
    rfailed,    \* the start-up step that raised
    rsignal,    \* whether SIGTERM or SIGINT was delivered
    rrestore,   \* how restoring the previous SIGINT handler ended
    rexit,      \* the exit code of the process
    rorig       \* whether a previous SIGINT handler was saved

runVars == <<rs, rexc, rstop, ch, rmods, rtasks, rfailed, rsignal, rrestore, rexit, rorig>>

VARIABLES
    cint,       \* the configured interval of the processor
    cclk,       \* time since the _run_processor task was started
    cpc,        \* position of the loop: call, work, wait
    cdeadline,  \* when the wait_for of the loop times out
    cbusy,      \* how long the running process() has taken so far
    cn          \* number of process() invocations

cadVars == <<cint, cclk, cpc, cdeadline, cbusy, cn>>

VARIABLES
    tasks,      \* BaseProcessor._tasks: the tasks start() created that have not ended
    tstate,     \* per start() call and phase, the state of the task it created
    spos,       \* per start() call, its position
    refs,       \* _head_task, _middle_task, _backlog_task: the call whose task they hold
    pstopEv,    \* SlotProcessor._stop_event of this processor
    nolast      \* whether the stored middle state lacks last_processed_slot

startVars == <<tasks, tstate, spos, refs, pstopEv, nolast>>

VARIABLES
    uname,      \* the name handed to Node.extract_username
    uresult,    \* what it returned
    upc         \* whether it was called

nameVars == <<uname, uresult, upc>>

lastVars == <<startVars, nameVars>>

\* the variables of the parts added after the slot processor, the state
\* managers and the modules
restVars == <<stoVars, winVars, runVars, cadVars, lastVars>>

(***************************************************************************)
(* process_slot                                                            *)
(***************************************************************************)
\* S3Storage.exists: head_object succeeded; any exception reads as absent
exists(key, headOk) == headOk /\ key \in artifacts

\* a process_slot without the early return
ProbeSkips_never(found) == FALSE

\* process_slot returns True right after the probe when the key was found
ProbeSkips(found) == found

\* a to_dict that reads self.network and returns the dictionary
to_dict_returns == FALSE

\* OptimizedSlotData.to_dict reads self.network_name; the model has the
\* field network only, so the attribute access raises AttributeError
to_dict_raises == TRUE

\* a process_slot that stores whatever the secondary fetches delivered
PutIssued_partial(ok) == TRUE

\* storage.store is reached when the gather of the seven secondary fetches
\* raised nothing and to_dict returned
PutIssued(ok) == ok /\ ~to_dict_raises

slotOf(p) == CASE p = "head" -> headSlot
               [] p = "middle" -> midCur
               [] p = "backlog" -> bkCur

\* a middle loop that retries the failed slot
MiddleNextSlot_retry(cur, ok) == IF ok THEN cur + 1 ELSE cur

\* the middle loop: current_slot += 1 after success and after failure
MiddleNextSlot(cur, ok) == cur + 1

\* a backlog loop that saves its state without moving
BacklogNextSlot_same(cur, ok) == cur

\* the backlog loop: process_backlog_slot drops the result of process_slot,
\* state.current_slot -= 1 follows in every case
BacklogNextSlot(cur, ok) == cur - 1

\* the middle loop saves its state in the success branch only
MiddleSaves(ok) == ok

SlotProcessorState(target, current, direction, last) ==
    [target_slot |-> target, current_slot |-> current,
     direction |-> direction, last_processed_slot |-> last]

\* ctx.state.get raising KeyError: no state under the key
NoState == SlotProcessorState(None, None, "absent", None)

\* a _get_processor_state that ignores what the state manager holds
LoadedState_fresh(saved, fresh) == fresh

\* _get_processor_state: the dictionary under the key, or the freshly
\* initialised one when the key is missing or empty
LoadedState(saved, fresh) == IF saved = NoState THEN fresh ELSE saved

\* what the driving phase does when process_slot returns
Return(p, rec) ==
    /\ call' = [call EXCEPT ![p] = rec]
    /\ bkLow' = IF p = "backlog" /\ (bkLow = None \/ rec.slot < bkLow)
                THEN rec.slot ELSE bkLow
    /\ pc' = [pc EXCEPT ![p] = "sleep"]
    /\ midCur' = IF p = "middle" THEN MiddleNextSlot(midCur, rec.ok) ELSE midCur
    /\ bkCur' = IF p = "backlog" THEN BacklogNextSlot(bkCur, rec.ok) ELSE bkCur
    /\ mem' = CASE p = "middle" /\ MiddleSaves(rec.ok) ->
                     [mem EXCEPT !["middle"] =
                         SlotProcessorState(midTarget, None, "middle", midCur')]
                [] p = "backlog" ->
                     [mem EXCEPT !["backward"] =
                         SlotProcessorState(mem["backward"].target_slot, bkCur',
                                            "backward", None)]
                [] OTHER -> mem
    /\ UNCHANGED <<wall, headSlot, midTarget, stopEv, startPc>>

Probe(p) ==
    /\ pc[p] = "probe"
    /\ \E headOk \in BOOLEAN :
         LET found == exists(slotOf(p), headOk) IN
         /\ probed' = [probed EXCEPT ![p] = found]
         /\ IF ProbeSkips(found)
            THEN /\ Return(p, [slot |-> slotOf(p), found |-> TRUE,
                               fetched |-> "none", put |-> FALSE, ok |-> TRUE])
                 /\ UNCHANGED <<artifacts, puts>>
            ELSE /\ pc' = [pc EXCEPT ![p] = "prereq"]
                 /\ UNCHANGED <<wall, artifacts, puts, headSlot, midCur, midTarget,
                                bkCur, mem, call, bkLow, stopEv, startPc>>
    /\ UNCHANGED <<crashVars, stateVars, modVars, restVars>>

\* gather(get_block_data, get_proposer_data): an empty row set raises
Prereq(p) ==
    /\ pc[p] = "prereq"
    /\ \E ok \in BOOLEAN :
         IF ok
         THEN /\ pc' = [pc EXCEPT ![p] = "secondary"]
              /\ UNCHANGED <<wall, artifacts, puts, headSlot, midCur, midTarget,
                             bkCur, mem, call, bkLow, probed, stopEv, startPc>>
         ELSE /\ Return(p, [slot |-> slotOf(p), found |-> FALSE,
                            fetched |-> "prereq_failed", put |-> FALSE, ok |-> FALSE])
              /\ UNCHANGED <<artifacts, puts, probed>>
    /\ UNCHANGED <<crashVars, stateVars, modVars, restVars>>

\* gather of the seven secondary fetches, transform_slot_data_for_storage(...)
\* .to_dict() and storage.store
Secondary(p) ==
    /\ pc[p] = "secondary"
    /\ \E ok \in BOOLEAN, putOk \in BOOLEAN :
         LET s == slotOf(p)
             issued == PutIssued(ok)
             stored == issued /\ putOk
         IN /\ artifacts' = IF stored THEN artifacts \cup {s} ELSE artifacts
            /\ puts' = IF issued
                       THEN [puts EXCEPT ![s] = IF @ < PutCap THEN @ + 1 ELSE @]
                       ELSE puts
            /\ Return(p, [slot |-> s, found |-> FALSE,
                          fetched |-> IF ok THEN "all" ELSE "secondary_failed",
                          put |-> issued, ok |-> stored])
            /\ UNCHANGED probed
    /\ UNCHANGED <<crashVars, stateVars, modVars, restVars>>

(***************************************************************************)
(* The three phases                                                        *)
(***************************************************************************)
\* phase p calls process_slot: the record of its previous call is dropped
Enter(p) ==
    /\ call' = [call EXCEPT ![p] = NoCall]
    /\ probed' = [probed EXCEPT ![p] = FALSE]
    /\ bkLow' = bkLow

\* a head loop that keeps the target of its previous iteration
HeadTarget_kept(clock, previous) == previous

\* the head loop: target_slot = get_current_slot() - head_lag_slots
HeadTarget(clock, previous) == clock - HeadLag

HeadBegin ==
    /\ pc["head"] = "loop"
    /\ ~stopEv
    /\ headSlot' = HeadTarget(wall, headSlot)
    /\ pc' = [pc EXCEPT !["head"] = "probe"]
    /\ Enter("head")
    /\ UNCHANGED <<wall, artifacts, puts, midCur, midTarget, bkCur, mem,
                   stopEv, startPc>>
    /\ UNCHANGED <<crashVars, stateVars, modVars, restVars>>

\* wait_for(self._stop_event.wait(), timeout) timing out
Wake(p) ==
    /\ pc[p] = "sleep"
    /\ ~stopEv
    /\ pc' = [pc EXCEPT ![p] = "loop"]
    /\ UNCHANGED <<wall, artifacts, puts, headSlot, midCur, midTarget, bkCur,
                   mem, call, bkLow, probed, stopEv, startPc>>
    /\ UNCHANGED <<crashVars, stateVars, modVars, restVars>>

\* _get_processor_state("middle") and the reads of the loop bounds
MiddleInit ==
    /\ pc["middle"] = "init"
    /\ LET fresh == LET target == (wall - HeadLag) - MiddleSpan
                        start == IF target - MiddleSpan > 0
                                 THEN target - MiddleSpan ELSE 0
                    IN SlotProcessorState(target, None, "middle", start)
           state == LoadedState(mem["middle"], fresh)
       IN /\ mem' = [mem EXCEPT !["middle"] = state]
          /\ midCur' = state.last_processed_slot
          /\ midTarget' = state.target_slot
    /\ pc' = [pc EXCEPT !["middle"] = "loop"]
    /\ UNCHANGED <<wall, artifacts, puts, headSlot, bkCur, call, bkLow, probed, stopEv, startPc>>
    /\ UNCHANGED <<crashVars, stateVars, modVars, restVars>>

MiddleBegin ==
    /\ pc["middle"] = "loop"
    /\ pc' = [pc EXCEPT !["middle"] =
                 IF ~stopEv /\ midCur < midTarget THEN "probe" ELSE "done"]
    /\ IF pc'["middle"] = "probe" THEN Enter("middle") ELSE UNCHANGED <<call, bkLow, probed>>
    /\ UNCHANGED <<wall, artifacts, puts, headSlot, midCur, midTarget, bkCur,
                   mem, stopEv, startPc>>
    /\ UNCHANGED <<crashVars, stateVars, modVars, restVars>>

\* _calculate_target_backlog_slot and _get_processor_state("backward")
BacklogInit ==
    /\ pc["backlog"] = "init"
    /\ LET fresh == SlotProcessorState(BacklogTarget, wall - HeadLag, "backward", None)
           state == LoadedState(mem["backward"], fresh)
       IN /\ mem' = [mem EXCEPT !["backward"] = state]
          /\ bkCur' = state.current_slot
    /\ pc' = [pc EXCEPT !["backlog"] = "loop"]
    /\ UNCHANGED <<wall, artifacts, puts, headSlot, midCur, midTarget, call, bkLow, probed,
                   stopEv, startPc>>
    /\ UNCHANGED <<crashVars, stateVars, modVars, restVars>>

\* a backlog loop that also processes its target slot
BacklogHasWork_inclusive(cur, target) == cur >= target

\* the backlog loop: "if state.current_slot > target_slot"
BacklogHasWork(cur, target) == cur > target

BacklogBegin ==
    /\ pc["backlog"] = "loop"
    /\ pc' = [pc EXCEPT !["backlog"] =
                 IF stopEv THEN "done"
                 ELSE IF BacklogHasWork(bkCur, BacklogTarget) THEN "probe" ELSE "sleep"]
    /\ IF pc'["backlog"] = "probe" THEN Enter("backlog") ELSE UNCHANGED <<call, bkLow, probed>>
    /\ UNCHANGED <<wall, artifacts, puts, headSlot, midCur, midTarget, bkCur,
                   mem, stopEv, startPc>>
    /\ UNCHANGED <<crashVars, stateVars, modVars, restVars>>

(***************************************************************************)
(* SlotProcessor.start and SlotProcessor.stop                              *)
(***************************************************************************)
\* start() creates the head task and the middle task, then awaits the middle
StartCall ==
    /\ startPc = "init"
    /\ startPc' = "awaitMiddle"
    /\ pc' = [pc EXCEPT !["head"] = "loop", !["middle"] = "init"]
    /\ UNCHANGED <<wall, artifacts, puts, headSlot, midCur, midTarget, bkCur,
                   mem, call, bkLow, probed, stopEv>>
    /\ UNCHANGED <<crashVars, stateVars, modVars, restVars>>

\* a start() that creates the backlog task without awaiting the middle task
MiddleAwaited_skipped(middle) == TRUE

\* "await self._middle_task" returns or raises once the middle task has ended
MiddleAwaited(middle) == middle \in {"done", "cancelled"}

\* start() after the await: CancelledError returns, otherwise the backlog task
\* is created
StartResume ==
    /\ startPc = "awaitMiddle"
    /\ MiddleAwaited(pc["middle"])
    /\ startPc' = "returned"
    /\ pc' = IF pc["middle"] = "cancelled"
             THEN pc
             ELSE [pc EXCEPT !["backlog"] = "init"]
    /\ UNCHANGED <<wall, artifacts, puts, headSlot, midCur, midTarget, bkCur,
                   mem, call, bkLow, probed, stopEv>>
    /\ UNCHANGED <<crashVars, stateVars, modVars, restVars>>

\* stop(): sets the stop event and cancels the three tasks.  The head and
\* backlog loops turn CancelledError into a break; the middle loop re-raises
\* it, except that a wait_for whose event is already set may return normally.
Stop ==
    /\ ~stopEv
    /\ startPc # "init"
    /\ stopEv' = TRUE
    /\ \E midEnd \in {"cancelled", "done"} :
         /\ (midEnd = "done") => (pc["middle"] = "sleep")
         /\ pc' = [p \in Phases |->
                     IF pc[p] \notin Running THEN pc[p]
                     ELSE IF p = "middle" THEN midEnd ELSE "done"]
    /\ UNCHANGED <<wall, artifacts, puts, headSlot, midCur, midTarget, bkCur,
                   mem, call, bkLow, probed, startPc>>
    /\ UNCHANGED <<crashVars, stateVars, modVars, restVars>>

Tick ==
    /\ wall < MaxWall
    /\ wall' = wall + 1
    /\ UNCHANGED <<artifacts, puts, pc, headSlot, midCur, midTarget, bkCur,
                   mem, call, bkLow, probed, stopEv, startPc>>
    /\ UNCHANGED <<crashVars, stateVars, modVars, restVars>>

InitSlot ==
    /\ wall = StartWall
    /\ artifacts \in {A \in SUBSET Slots : Cardinality(A) <= MaxPublished}
    /\ puts = [s \in Slots |-> 0]
    /\ pc = [p \in Phases |-> "none"]
    /\ headSlot = 0
    /\ midCur = 0
    /\ midTarget = 0
    /\ bkCur = 0
    /\ mem = [k \in {"middle", "backward"} |-> NoState]
    /\ call = [p \in Phases |-> NoCall]
    /\ probed = [p \in Phases |-> FALSE]
    /\ stopEv = FALSE
    /\ startPc = "init"
    /\ bkLow = None

NextSlot ==
    \/ StartCall
    \/ StartResume
    \/ Stop
    \/ Tick
    \/ HeadBegin
    \/ MiddleInit
    \/ MiddleBegin
    \/ BacklogInit
    \/ BacklogBegin
    \/ \E p \in Phases : Wake(p)
    \/ \E p \in Phases : Probe(p)
    \/ \E p \in Phases : Prereq(p)
    \/ \E p \in Phases : Secondary(p)

(***************************************************************************)
(* StateManager, S3Storage.store_atomic and Runner.stop                    *)
(***************************************************************************)
\* number of set() calls a module makes in a run
MaxVer == 1
\* number of object-store calls that fail in a run
MaxFaults == 1

\* the outcomes of one object-store call: a call fails while faults remain
Outcomes == IF faults < MaxFaults THEN {TRUE, FALSE} ELSE {TRUE}
Counted(ok) == IF ok THEN faults ELSE faults + 1

\* max_retries of S3Storage._copy
MaxRetries == 5

\* two of the modules the Runner registers, each with its own StateManager
Mods == {"beacon", "beacon_chain_timings"}

\* a module's sub-map, named by the number of set() calls that built it
Ver == 0..MaxVer
\* a module without an entry in the document
Missing == -1

FinalKey == "state.json"
\* temp_key = f"temp/{key}"
TempKey == "temp/state.json"

\* json documents {module_name: sub-map}
Docs == [Mods -> Ver \cup {Missing}]
EmptyDoc == [m \in Mods |-> Missing]

\* byte strings: a json text under z layers of gzip
json_dumps(doc) == [z |-> 0, doc |-> doc]
\* json.loads raises on bytes that are not a json text
json_loads_ok(bytes) == bytes.z = 0
gzip_compress(data) == [z |-> data.z + 1, doc |-> data.doc]
gzip_decompress(body) == [z |-> body.z - 1, doc |-> body.doc]

\* a key without an object
NoObj == [ContentEncoding |-> "none", Body |-> json_dumps(EmptyDoc)]

\* an _upload that labels the raw bytes as gzip without compressing them
Upload_raw(data) == [ContentEncoding |-> "gzip", Body |-> data]

\* S3Storage._upload: the compressed bytes with ContentEncoding gzip
Upload(data) == [ContentEncoding |-> "gzip", Body |-> gzip_compress(data)]

\* a _copy that lets the destination default to no content encoding
CopyObject_identity(src) == [ContentEncoding |-> "identity", Body |-> src.Body]

\* S3Storage._copy: copy_object with ContentEncoding='gzip', REPLACE
CopyObject(src) == [ContentEncoding |-> "gzip", Body |-> src.Body]

\* S3Storage.get: the body, decompressed when the content encoding is gzip
Get(obj) == IF obj.ContentEncoding = "gzip" THEN gzip_decompress(obj.Body) ELSE obj.Body

\* the sub-map of module m in the stored state.json
SubMap(obj, m) == IF obj = NoObj THEN Missing
                  ELSE IF json_loads_ok(Get(obj)) THEN Get(obj).doc[m] ELSE Missing

\* positions of a flush inside store_atomic
InAtomic == {"upload", "copy", "delete", "cleanup"}

\* the other store_atomic calls in progress see a step on the shared keys
Overlapped(m) == [o \in Mods |-> IF o # m /\ fpc[o] \in InAtomic THEN TRUE ELSE overlap[o]]

\* flush(): "async with self._lock" around _write_state_to_s3, from the
\* download to the return or the exception of store_atomic
LockHeld(m) == fpc[m] \in InAtomic

\* StateManager.set, under the lock that flush() holds for its whole duration
Set(m) ==
    /\ runner = "running"
    /\ fpc[m] \in {"idle"} \cup InAtomic
    /\ ~LockHeld(m)
    /\ smem[m] < MaxVer
    /\ smem' = [smem EXCEPT ![m] = @ + 1]
    /\ UNCHANGED <<store, fpc, fdoc, fgot, attempt, fres, overlap, runner, faults>>
    /\ UNCHANGED <<slotVars, crashVars, modVars, restVars>>

\* _flush_loop wakes up; _write_state_to_s3 downloads state.json (any
\* exception gives {}), overwrites its own entry and calls store_atomic
FlushDownload(m) ==
    /\ runner # "stopped"
    /\ fpc[m] = "idle"
    /\ \E getOk \in Outcomes :
         LET got == /\ getOk
                    /\ store[FinalKey] # NoObj
                    /\ json_loads_ok(Get(store[FinalKey]))
             full_state == IF got THEN Get(store[FinalKey]).doc ELSE EmptyDoc
         IN /\ fdoc' = [fdoc EXCEPT ![m] = [full_state EXCEPT ![m] = smem[m]]]
            /\ fgot' = [fgot EXCEPT ![m] = got]
            /\ faults' = Counted(getOk)
    /\ fpc' = [fpc EXCEPT ![m] = "upload"]
    /\ fres' = [fres EXCEPT ![m] = "none"]
    /\ overlap' = [overlap EXCEPT ![m] = FALSE]
    /\ UNCHANGED <<store, smem, attempt, runner>>
    /\ UNCHANGED <<slotVars, crashVars, modVars, restVars>>

\* store_atomic: _upload(temp_key, data)
UploadTemp(m) ==
    /\ fpc[m] = "upload"
    /\ \E ok \in Outcomes :
         /\ faults' = Counted(ok)
         /\ IF ok
            THEN /\ store' = [store EXCEPT ![TempKey] = Upload(json_dumps(fdoc[m]))]
                 /\ fpc' = [fpc EXCEPT ![m] = "copy"]
            ELSE /\ store' = store
                 /\ fpc' = [fpc EXCEPT ![m] = "cleanup"]
    /\ attempt' = [attempt EXCEPT ![m] = 0]
    /\ overlap' = Overlapped(m)
    /\ UNCHANGED <<smem, fdoc, fgot, fres, runner>>
    /\ UNCHANGED <<slotVars, crashVars, modVars, restVars>>

\* store_atomic: one attempt of _copy(temp_key, key), head_object of the
\* source and copy_object; the last failed attempt raises
Copy(m) ==
    /\ fpc[m] = "copy"
    /\ \E ok \in Outcomes :
         /\ faults' = Counted(ok)
         /\ IF ok /\ store[TempKey] # NoObj
            THEN /\ store' = [store EXCEPT ![FinalKey] = CopyObject(store[TempKey])]
                 /\ fpc' = [fpc EXCEPT ![m] = "delete"]
                 /\ attempt' = [attempt EXCEPT ![m] = 0]
            ELSE /\ store' = store
                 /\ attempt' = [attempt EXCEPT ![m] =
                                  IF @ + 1 < MaxRetries THEN @ + 1 ELSE 0]
                 /\ fpc' = [fpc EXCEPT ![m] =
                              IF attempt[m] + 1 < MaxRetries THEN "copy" ELSE "cleanup"]
    /\ overlap' = Overlapped(m)
    /\ UNCHANGED <<smem, fdoc, fgot, fres, runner>>
    /\ UNCHANGED <<slotVars, crashVars, modVars, restVars>>

\* store_atomic: delete(temp_key) after the copy, then return
DeleteTemp(m) ==
    /\ fpc[m] = "delete"
    /\ \E ok \in Outcomes :
         /\ faults' = Counted(ok)
         /\ IF ok
            THEN /\ store' = [store EXCEPT ![TempKey] = NoObj]
                 /\ fpc' = [fpc EXCEPT ![m] = "idle"]
                 /\ fres' = [fres EXCEPT ![m] = "ok"]
            ELSE /\ store' = store
                 /\ fpc' = [fpc EXCEPT ![m] = "cleanup"]
                 /\ fres' = fres
    /\ overlap' = Overlapped(m)
    /\ UNCHANGED <<smem, fdoc, fgot, attempt, runner>>
    /\ UNCHANGED <<slotVars, crashVars, modVars, restVars>>

\* store_atomic: the except branch deletes temp_key (best effort) and
\* re-raises; _flush_loop logs the error
Cleanup(m) ==
    /\ fpc[m] = "cleanup"
    /\ \E ok \in Outcomes :
         /\ faults' = Counted(ok)
         /\ store' = IF ok THEN [store EXCEPT ![TempKey] = NoObj] ELSE store
    /\ fpc' = [fpc EXCEPT ![m] = "idle"]
    /\ fres' = [fres EXCEPT ![m] = "err"]
    /\ overlap' = Overlapped(m)
    /\ UNCHANGED <<smem, fdoc, fgot, attempt, runner>>
    /\ UNCHANGED <<slotVars, crashVars, modVars, restVars>>

\* Runner.stop: the modules are stopped, then every remaining task (the
\* flush loops) is cancelled and awaited in turn; no StateManager.stop and no
\* flush is called
RunnerStop ==
    /\ runner = "running"
    /\ runner' = "stopping"
    /\ UNCHANGED <<store, smem, fpc, fdoc, fgot, attempt, fres, overlap, faults>>
    /\ UNCHANGED <<slotVars, crashVars, modVars, restVars>>

\* task.cancel() and await task for one flush loop: CancelledError ends it
CancelFlush(m) ==
    /\ runner = "stopping"
    /\ fpc[m] # "cancelled"
    /\ fpc' = [fpc EXCEPT ![m] = "cancelled"]
    /\ attempt' = [attempt EXCEPT ![m] = 0]
    /\ UNCHANGED <<store, smem, fdoc, fgot, fres, overlap, runner, faults>>
    /\ UNCHANGED <<slotVars, crashVars, modVars, restVars>>

RunnerStopped ==
    /\ runner = "stopping"
    /\ \A m \in Mods : fpc[m] = "cancelled"
    /\ runner' = "stopped"
    /\ UNCHANGED <<store, smem, fpc, fdoc, fgot, attempt, fres, overlap, faults>>
    /\ UNCHANGED <<slotVars, crashVars, modVars, restVars>>

\* after registration: state.json holds the document of an earlier run or the
\* one the first StateManager.start created; every module loaded its sub-map
InitState ==
    /\ \E d \in [Mods -> {Missing, 0}] \ {EmptyDoc} :
         store = [k \in {FinalKey, TempKey} |-> IF k = FinalKey THEN Upload(json_dumps(d)) ELSE NoObj]
    /\ smem = [m \in Mods |-> 0]
    /\ fpc = [m \in Mods |-> "idle"]
    /\ fdoc = [m \in Mods |-> EmptyDoc]
    /\ fgot = [m \in Mods |-> FALSE]
    /\ attempt = [m \in Mods |-> 0]
    /\ fres = [m \in Mods |-> "none"]
    /\ overlap = [m \in Mods |-> FALSE]
    /\ runner = "running"
    /\ faults = 0

NextState ==
    \/ \E m \in Mods : Set(m)
    \/ \E m \in Mods : FlushDownload(m)
    \/ \E m \in Mods : UploadTemp(m)
    \/ \E m \in Mods : Copy(m)
    \/ \E m \in Mods : DeleteTemp(m)
    \/ \E m \in Mods : Cleanup(m)
    \/ RunnerStop
    \/ \E m \in Mods : CancelFlush(m)
    \/ RunnerStopped

\* the part of the program SpecSlot leaves alone, and the one SpecState does
StateAtRest ==
    /\ store = [k \in {FinalKey, TempKey} |-> NoObj]
    /\ smem = [m \in Mods |-> 0]
    /\ fpc = [m \in Mods |-> "idle"]
    /\ fdoc = [m \in Mods |-> EmptyDoc]
    /\ fgot = [m \in Mods |-> FALSE]
    /\ attempt = [m \in Mods |-> 0]
    /\ fres = [m \in Mods |-> "none"]
    /\ overlap = [m \in Mods |-> FALSE]
    /\ runner = "running"
    /\ faults = 0

SlotAtRest ==
    /\ wall = StartWall
    /\ artifacts = {}
    /\ puts = [s \in Slots |-> 0]
    /\ pc = [p \in Phases |-> "none"]
    /\ headSlot = 0
    /\ midCur = 0
    /\ midTarget = 0
    /\ bkCur = 0
    /\ mem = [k \in {"middle", "backward"} |-> NoState]
    /\ call = [p \in Phases |-> NoCall]
    /\ probed = [p \in Phases |-> FALSE]
    /\ stopEv = FALSE
    /\ startPc = "init"
    /\ bkLow = None

\* no flush has happened and the process has not been killed
NoCrash ==
    /\ disk = [k \in {"middle", "backward"} |-> NoState]
    /\ crashed = 0

vars == <<slotVars, crashVars, stateVars, modVars, restVars>>

(***************************************************************************)
(* Kill and restart of the process                                         *)
(***************************************************************************)
\* a flush of the module's StateManager that reaches state.json: the
\* document now holds the in-memory map
FlushSlotState ==
    /\ disk # mem
    /\ disk' = mem
    /\ UNCHANGED <<slotVars, crashed, stateVars, modVars, restVars>>

\* the process is killed and started again: the bucket and the clock stay,
\* StateManager.start loads the sub-map of state.json, every task is gone
Crash ==
    /\ crashed < MaxCrashes
    /\ crashed' = crashed + 1
    /\ mem' = disk
    /\ puts' = [s \in Slots |-> 0]
    /\ pc' = [p \in Phases |-> "none"]
    /\ headSlot' = 0
    /\ midCur' = 0
    /\ midTarget' = 0
    /\ bkCur' = 0
    /\ call' = [p \in Phases |-> NoCall]
    /\ probed' = [p \in Phases |-> FALSE]
    /\ stopEv' = FALSE
    /\ startPc' = "init"
    /\ UNCHANGED <<wall, artifacts, bkLow, disk, stateVars, modVars, restVars>>

\* the middle and backlog phases around a kill of the process; the head
\* task, which reads and writes no state key, is left unscheduled, and the
\* process is ended by the kill only
NextRestart ==
    \/ StartCall
    \/ StartResume
    \/ Tick
    \/ MiddleInit
    \/ MiddleBegin
    \/ BacklogInit
    \/ BacklogBegin
    \/ \E p \in Phases : Wake(p)
    \/ \E p \in Phases : Probe(p)
    \/ \E p \in Phases : Prereq(p)
    \/ \E p \in Phases : Secondary(p)
    \/ FlushSlotState
    \/ Crash

(***************************************************************************)
(* S3Storage: one client calling store, store_atomic, get, delete, exists, *)
(* and StateManager.start                                                  *)
(***************************************************************************)
\* number of storage operations the caller issues before the state manager starts
MaxCalls == 1

\* base_delay of S3Storage._copy, in seconds
BaseDelay == 1

\* the documents found in the bucket or handed to the storage
StoredDocs == [Mods -> {Missing, MaxVer}]

\* the requests S3Storage sends through the boto3 client
Requests == {"put", "head", "copy", "get", "delete"}
NoRequests == [r \in Requests |-> 0]

\* the operations of the Storage interface
Operations == {"store", "store_atomic", "get", "delete", "exists"}

\* the variables the storage part leaves alone
notSto == <<slotVars, crashVars, stateVars, modVars, winVars, runVars, cadVars, lastVars>>

\* a _copy that waits base_delay after every failed attempt
Delay_constant(n) == BaseDelay

\* _copy: delay = base_delay * (2 ** attempt), n the attempt
Delay(n) == BaseDelay * (2 ^ n)

\* _copy: "if attempt < max_retries - 1" sleeps and retries, else raises
RetriesLeft(n) == n < MaxRetries - 1

\* a start() that takes the sub-map of the first module of the document
LoadedSubMap_any(doc, m) == IF \E o \in Mods : doc[o] # Missing
                            THEN doc[CHOOSE o \in Mods : doc[o] # Missing]
                            ELSE 0

\* StateManager.start: full_state.get(self.name, {})
LoadedSubMap(doc, m) == IF doc[m] = Missing THEN 0 ELSE doc[m]

\* StateManager.start: empty_state = {self.name: {}}
EmptyState(m) == [o \in Mods |-> IF o = m THEN 0 ELSE Missing]

\* an operation is called: its counters start from zero
Called(op, data) ==
    /\ sop' = op
    /\ spc' = IF op \in {"store", "store_atomic"} THEN "upload" ELSE "request"
    /\ sdata' = data
    /\ sattempt' = 0
    /\ sleeps' = <<>>
    /\ reqs' = NoRequests
    /\ sres' = "none"
    /\ sfail' = "none"

\* the caller of the storage, before the state manager is started
StoCall ==
    /\ spc = "idle"
    /\ stpc = "init"
    /\ ncalls < MaxCalls
    /\ ncalls' = ncalls + 1
    /\ \E op \in Operations, d \in StoredDocs : Called(op, json_dumps(d))
    /\ sbefore' = bucket
    /\ UNCHANGED <<bucket, sgot, stpc, sname, sstate, sflush, sget>>
    /\ UNCHANGED notSto

\* _upload: one upload_fileobj, to temp/<key> in store_atomic and to <key> in store
StoUpload ==
    /\ spc = "upload"
    /\ reqs' = [reqs EXCEPT !["put"] = @ + 1]
    /\ \E ok \in BOOLEAN :
         LET key == IF sop = "store_atomic" THEN TempKey ELSE FinalKey IN
         /\ bucket' = IF ok THEN [bucket EXCEPT ![key] = Upload(sdata)] ELSE bucket
         /\ spc' = IF sop = "store_atomic"
                   THEN (IF ok THEN "copy" ELSE "cleanup")
                   ELSE "idle"
         /\ sres' = IF sop = "store_atomic" THEN sres ELSE (IF ok THEN "ok" ELSE "err")
         /\ sfail' = IF sop = "store_atomic" /\ ~ok THEN "upload" ELSE sfail
    /\ UNCHANGED <<sop, sdata, sattempt, sleeps, sgot, stpc, sname, sstate, sflush, sget, sbefore, ncalls>>
    /\ UNCHANGED notSto

\* _copy: one pass of the for loop up to the return or the except branch:
\* head_object of the source, then copy_object
StoCopy ==
    /\ spc = "copy"
    /\ \E out \in {"ok", "head_fails", "copy_fails"} :
         /\ (bucket[TempKey] = NoObj) => (out = "head_fails")
         /\ reqs' = [reqs EXCEPT !["head"] = @ + 1,
                                 !["copy"] = IF out = "head_fails" THEN @ ELSE @ + 1]
         /\ IF out = "ok"
            THEN /\ bucket' = [bucket EXCEPT ![FinalKey] = CopyObject(bucket[TempKey])]
                 /\ spc' = "delete"
                 /\ sfail' = sfail
            ELSE /\ bucket' = bucket
                 /\ spc' = IF RetriesLeft(sattempt) THEN "backoff" ELSE "cleanup"
                 /\ sfail' = IF RetriesLeft(sattempt) THEN sfail ELSE "copy"
    /\ UNCHANGED <<sop, sdata, sattempt, sleeps, sres, sgot, stpc, sname, sstate, sflush, sget, sbefore, ncalls>>
    /\ UNCHANGED notSto

\* _copy: asyncio.sleep(delay) in the except branch, then the next attempt
StoBackoff ==
    /\ spc = "backoff"
    /\ sleeps' = Append(sleeps, Delay(sattempt))
    /\ sattempt' = sattempt + 1
    /\ spc' = "copy"
    /\ UNCHANGED <<bucket, sop, sdata, reqs, sres, sgot, sfail, stpc, sname, sstate, sflush, sget, sbefore, ncalls>>
    /\ UNCHANGED notSto

\* store_atomic: delete(temp_key) after the copy
StoDelete ==
    /\ spc = "delete"
    /\ reqs' = [reqs EXCEPT !["delete"] = @ + 1]
    /\ \E ok \in BOOLEAN :
         /\ bucket' = IF ok THEN [bucket EXCEPT ![TempKey] = NoObj] ELSE bucket
         /\ spc' = IF ok THEN "idle" ELSE "cleanup"
         /\ sres' = IF ok THEN "ok" ELSE sres
         /\ sfail' = IF ok THEN sfail ELSE "delete"
    /\ UNCHANGED <<sop, sdata, sattempt, sleeps, sgot, stpc, sname, sstate, sflush, sget, sbefore, ncalls>>
    /\ UNCHANGED notSto

\* a store_atomic that returns once the temp object is cleaned up
AfterCleanup_swallowed(cleaned) == IF cleaned THEN "ok" ELSE "err"

\* store_atomic: the bare raise that ends the except branch re-raises the
\* exception of the failed step, whether the cleanup delete raised or not
AfterCleanup(cleaned) == "err"

\* store_atomic: the except branch calls delete(temp_key), logs a failure
\* of it, and re-raises
StoCleanup ==
    /\ spc = "cleanup"
    /\ reqs' = [reqs EXCEPT !["delete"] = @ + 1]
    /\ \E ok \in BOOLEAN :
         /\ bucket' = IF ok THEN [bucket EXCEPT ![TempKey] = NoObj] ELSE bucket
         /\ sres' = AfterCleanup(ok)
    /\ spc' = "idle"
    /\ UNCHANGED <<sop, sdata, sattempt, sleeps, sgot, sfail, stpc, sname, sstate, sflush, sget, sbefore, ncalls>>
    /\ UNCHANGED notSto

\* get: one get_object, which raises NoSuchKey for a missing key;
\* delete: one delete_object; exists: one head_object, any error reads False
StoRequest ==
    /\ spc = "request"
    /\ spc' = "idle"
    /\ \E ok \in BOOLEAN :
         CASE sop = "get" ->
                /\ reqs' = [reqs EXCEPT !["get"] = @ + 1]
                /\ sres' = IF ~ok THEN "err"
                           ELSE IF bucket[FinalKey] = NoObj THEN "NoSuchKey" ELSE "ok"
                /\ sgot' = IF sres' = "ok" THEN Get(bucket[FinalKey]) ELSE sgot
                /\ bucket' = bucket
           [] sop = "delete" ->
                /\ reqs' = [reqs EXCEPT !["delete"] = @ + 1]
                /\ sres' = IF ok THEN "ok" ELSE "err"
                /\ bucket' = IF ok THEN [bucket EXCEPT ![FinalKey] = NoObj] ELSE bucket
                /\ sgot' = sgot
           [] sop = "exists" ->
                /\ reqs' = [reqs EXCEPT !["head"] = @ + 1]
                /\ sres' = IF ok /\ bucket[FinalKey] # NoObj THEN "true" ELSE "false"
                /\ bucket' = bucket
                /\ sgot' = sgot
    /\ UNCHANGED <<sop, sdata, sattempt, sleeps, sfail, stpc, sname, sstate, sflush, sget, sbefore, ncalls>>
    /\ UNCHANGED notSto

\* StateManager.start: storage.get("state.json")
StartGet ==
    /\ stpc = "init"
    /\ spc = "idle"
    /\ stpc' = "get"
    /\ Called("get", sdata)
    /\ sbefore' = bucket
    /\ UNCHANGED <<bucket, sgot, sname, sstate, sflush, sget, ncalls>>
    /\ UNCHANGED notSto

\* StateManager.start after the get: the first chunk is parsed and the
\* sub-map taken; NoSuchKey leads to store_atomic of the empty state; any
\* other exception, of the get or of json.loads, is raised
StartLoad ==
    /\ stpc = "get"
    /\ spc = "idle"
    /\ LET res == IF sres = "ok" /\ ~json_loads_ok(sgot) THEN "undecodable" ELSE sres IN
       /\ sget' = res
       /\ CASE res = "ok" ->
                 /\ sstate' = LoadedSubMap(sgot.doc, sname)
                 /\ stpc' = "started"
                 /\ sflush' = TRUE
                 /\ UNCHANGED <<sop, spc, sdata, sattempt, sleeps, reqs, sres, sfail>>
            [] res = "NoSuchKey" ->
                 /\ stpc' = "write"
                 /\ Called("store_atomic", json_dumps(EmptyState(sname)))
                 /\ UNCHANGED <<sstate, sflush>>
            [] OTHER ->
                 /\ stpc' = "raised"
                 /\ UNCHANGED <<sop, spc, sdata, sattempt, sleeps, reqs, sres, sfail,
                                sstate, sflush>>
    /\ UNCHANGED <<bucket, sgot, sname, sbefore, ncalls>>
    /\ UNCHANGED notSto

\* StateManager.start after store_atomic: an exception of it leaves start();
\* otherwise the flush task is created
StartWritten ==
    /\ stpc = "write"
    /\ spc = "idle"
    /\ stpc' = IF sres = "ok" THEN "started" ELSE "raised"
    /\ sflush' = (sres = "ok")
    /\ UNCHANGED <<bucket, sop, spc, sdata, sattempt, sleeps, reqs, sres, sgot, sfail,
                   sname, sstate, sget, sbefore, ncalls>>
    /\ UNCHANGED notSto

\* the storage client and a state manager as constructed
StoIdle ==
    /\ sop = "none"
    /\ spc = "idle"
    /\ sdata = json_dumps(EmptyDoc)
    /\ sattempt = 0
    /\ sleeps = <<>>
    /\ reqs = NoRequests
    /\ sres = "none"
    /\ sgot = json_dumps(EmptyDoc)
    /\ sfail = "none"
    /\ stpc = "init"
    /\ sstate = 0
    /\ sflush = FALSE
    /\ sget = "none"
    /\ ncalls = 0

StoAtRest ==
    /\ StoIdle
    /\ bucket = [k \in {FinalKey, TempKey} |-> NoObj]
    /\ sbefore = bucket
    /\ sname = "beacon"

\* state.json is absent, or was written by an earlier run, or is an object
\* whose body is not a json text
InitStorage ==
    /\ StoIdle
    /\ \E obj \in {NoObj} \cup {Upload(json_dumps(d)) : d \in StoredDocs}
                 \cup {[ContentEncoding |-> "none", Body |-> gzip_compress(json_dumps(EmptyDoc))]} :
         bucket = [k \in {FinalKey, TempKey} |-> IF k = FinalKey THEN obj ELSE NoObj]
    /\ sbefore = bucket
    /\ sname \in Mods

NextStorage ==
    \/ StoCall
    \/ StoUpload
    \/ StoCopy
    \/ StoBackoff
    \/ StoDelete
    \/ StoCleanup
    \/ StoRequest
    \/ StartGet
    \/ StartLoad
    \/ StartWritten

(***************************************************************************)
(* The attestation windows of a slot                                       *)
(***************************************************************************)
\* number of validators that may have voted in the slot
MaxValidator == 4

\* width of an attestation bucket, in ms
WindowMs == 50

Validators == 1..MaxValidator
\* propagation_slot_start_diff of the votes, in ms
VoteTimes == {120, 140, 175, 200}

\* no rows
NoVotes == <<>>

\* the variables the attestation part leaves alone
notWin == <<slotVars, crashVars, stateVars, modVars, stoVars, runVars, cadVars, lastVars>>

\* MIN(min_propagation_time) over raw_data
FloorTime(v) == CHOOSE t \in {v[i] : i \in DOMAIN v} : \A j \in DOMAIN v : t <= v[j]

\* FLOOR((min_propagation_time - floor_time) / 50) * 50 + floor_time
SnapToFloor(t, floor) == ((t - floor) \div WindowMs) * WindowMs + floor

\* bucket = time_ms - (time_ms % 50)
Bucket(t) == t - (t % WindowMs)

\* sorted(...) of a set of integers
RECURSIVE sorted(_)
sorted(S) == IF S = {} THEN <<>>
             ELSE LET lo == CHOOSE x \in S : \A y \in S : x <= y
                  IN <<lo>> \o sorted(S \ {lo})

\* a bucket that keeps its first validator only
Members_first(v, b) == LET all == {i \in DOMAIN v : Bucket(v[i]) = b}
                       IN {CHOOSE x \in all : \A y \in all : x <= y}

\* attestation_buckets[bucket]: the validators whose time rounds down to it
Members(v, b) == {i \in DOMAIN v : Bucket(v[i]) = b}

\* the list attestation_windows, in the order of sorted(attestation_buckets)
AttestationWindows(v) ==
    LET starts == sorted({Bucket(v[i]) : i \in DOMAIN v})
    IN [k \in 1..Len(starts) |->
          [start_ms |-> starts[k],
           end_ms |-> starts[k] + WindowMs,
           validator_indices |-> sorted(Members(v, starts[k]))]]

\* get_attestation_votes: one row per validator, its time moved down to
\* the 50 ms step counted from the earliest time
QueryVotes ==
    /\ wpc = "raw"
    /\ snapped' = [i \in DOMAIN votes |-> SnapToFloor(votes[i], FloorTime(votes))]
    /\ wpc' = "queried"
    /\ UNCHANGED <<votes, windows>>
    /\ UNCHANGED notWin

\* transform_slot_data_for_storage: the buckets and the windows
TransformVotes ==
    /\ wpc = "queried"
    /\ windows' = AttestationWindows(snapped)
    /\ wpc' = "done"
    /\ UNCHANGED <<votes, snapped>>
    /\ UNCHANGED notWin

WinAtRest ==
    /\ votes = NoVotes
    /\ snapped = NoVotes
    /\ windows = <<>>
    /\ wpc = "none"

\* the votes of one slot, as the warehouse holds them
InitWindows ==
    /\ votes \in UNION {[V -> VoteTimes] : V \in SUBSET Validators}
    /\ snapped = NoVotes
    /\ windows = <<>>
    /\ wpc = "raw"

NextWindows ==
    \/ QueryVotes
    \/ TransformVotes

(***************************************************************************)
(* Runner.start, the signal handler, Runner.stop and the exit code         *)
(***************************************************************************)
\* the steps of Runner.start before it waits for the stop event
StartupSteps == <<"storage", "clickhouse", "networks", "config", "register", "startmods">>
Startup == {StartupSteps[i] : i \in 1..Len(StartupSteps)}

\* S3Storage(...) and ClickHouseClient.start() never suspend the main task
Synchronous == {"storage", "clickhouse"}

\* _start_modules catches the exception of every module.start()
NeverRaises == {"startmods"}

StepAfter(step) == LET i == CHOOSE j \in 1..Len(StartupSteps) : StartupSteps[j] = step
                   IN IF i < Len(StartupSteps) THEN StartupSteps[i + 1] ELSE "wait"

\* the variables the runner part leaves alone
notRun == <<slotVars, crashVars, stateVars, modVars, stoVars, winVars, cadVars, lastVars>>

\* a handler that only cancels the tasks
HandlerSetsStop_not == FALSE

\* handle_signal: loop.call_soon_threadsafe(self._stop_event.set)
HandlerSetsStop == TRUE

\* an entry point that returns 0 whatever start() raised
ExitCode_zero(exc) == 0

\* amain returns 1 on an Exception of start() and 0 when it returns; a
\* CancelledError leaves asyncio.run and main() uncaught
ExitCode(exc) == IF exc = "none" THEN 0 ELSE 1

\* one step of Runner.start; an Exception goes to the except branch
\* (stop event set, re-raised) and the finally branch calls stop()
RStartup ==
    /\ rs \in Startup
    /\ \E ok \in BOOLEAN, partial \in BOOLEAN :
         /\ (rs \in NeverRaises) => ok
         /\ (rs # "register") => partial = ok
         /\ ch' = CASE rs = "clickhouse" /\ ok -> "started"
                    [] rs = "clickhouse" /\ ~ok -> "created"
                    [] OTHER -> ch
         /\ rmods' = CASE rs = "register" /\ (ok \/ partial) -> "registered"
                       [] rs = "startmods" /\ rmods = "registered" -> "started"
                       [] OTHER -> rmods
         /\ rtasks' = IF rs \in {"register", "startmods"} /\ rmods' # "none"
                      THEN "running" ELSE rtasks
         /\ IF ok
            THEN /\ rs' = StepAfter(rs)
                 /\ UNCHANGED <<rexc, rstop, rfailed>>
            ELSE /\ rs' = "stop_modules"
                 /\ rexc' = "Exception"
                 /\ rstop' = TRUE
                 /\ rfailed' = rs
    /\ UNCHANGED <<rsignal, rrestore, rexit, rorig>>
    /\ UNCHANGED notRun

\* "await self._stop_event.wait()" returns
RWait ==
    /\ rs = "wait"
    /\ rstop
    /\ rs' = "stop_modules"
    /\ UNCHANGED <<rexc, rstop, ch, rmods, rtasks, rfailed, rsignal, rrestore, rexit, rorig>>
    /\ UNCHANGED notRun

\* handle_signal, run in the main thread: the stop event is set and every
\* task but the running one is cancelled.  A main task that is suspended
\* gets CancelledError where it waits: start() catches it at the wait, and
\* lets it through to the finally branch anywhere else
Signal ==
    /\ rs \in Startup \cup {"wait"}
    /\ rsignal' = TRUE
    /\ \E current \in {"main", "other", "nothing"} :
         /\ (rs \in Synchronous) => current = "main"
         /\ (rs = "wait" /\ ~rstop) => current # "main"
         /\ (current = "other") => rtasks = "running"
         /\ rtasks' = IF rtasks = "running" /\ current # "other" THEN "ended" ELSE rtasks
         /\ IF current = "main"
            THEN /\ rstop' = (rstop \/ HandlerSetsStop)
                 /\ UNCHANGED <<rs, rexc>>
            ELSE /\ rs' = "stop_modules"
                 /\ rexc' = IF rs = "wait" THEN "none" ELSE "CancelledError"
                 /\ rstop' = (rstop \/ HandlerSetsStop \/ rs = "wait")
    /\ UNCHANGED <<ch, rmods, rfailed, rrestore, rexit, rorig>>
    /\ UNCHANGED notRun

\* Runner.stop: _stop_modules, which logs what a module.stop() raises
RStopModules ==
    /\ rs = "stop_modules"
    /\ rmods' = IF rmods \in {"registered", "started"} THEN "stopped" ELSE rmods
    /\ rs' = "stop_clickhouse"
    /\ UNCHANGED <<rexc, rstop, ch, rtasks, rfailed, rsignal, rrestore, rexit, rorig>>
    /\ UNCHANGED notRun

\* Runner.stop: clickhouse.stop() when the client exists; an Exception of it
\* is logged and skips the cancellation of the tasks
RStopClickhouse ==
    /\ rs = "stop_clickhouse"
    /\ IF ch = "none"
       THEN rs' = "stop_tasks" /\ ch' = ch
       ELSE \E ok \in BOOLEAN :
              /\ ch' = IF ok THEN "stopped" ELSE "close_failed"
              /\ rs' = IF ok THEN "stop_tasks" ELSE "stop_finally"
    /\ UNCHANGED <<rexc, rstop, rmods, rtasks, rfailed, rsignal, rrestore, rexit, rorig>>
    /\ UNCHANGED notRun

\* Runner.stop: every task but the current one is cancelled and awaited
RStopTasks ==
    /\ rs = "stop_tasks"
    /\ rtasks' = IF rtasks = "running" THEN "ended" ELSE rtasks
    /\ rs' = "stop_finally"
    /\ UNCHANGED <<rexc, rstop, ch, rmods, rfailed, rsignal, rrestore, rexit, rorig>>
    /\ UNCHANGED notRun

\* Runner.stop, finally: the stop event is cleared and the saved SIGINT
\* handler restored; an Exception of signal.signal is logged
RStopFinally ==
    /\ rs = "stop_finally"
    /\ rstop' = FALSE
    /\ \E ok \in BOOLEAN :
         rrestore' = IF rorig THEN (IF ok THEN "ok" ELSE "failed") ELSE "none"
    /\ rs' = "exit"
    /\ UNCHANGED <<rexc, ch, rmods, rtasks, rfailed, rsignal, rexit, rorig>>
    /\ UNCHANGED notRun

\* start() returns or raises to amain, and the process exits
RExit ==
    /\ rs = "exit"
    /\ rexit' = ExitCode(rexc)
    /\ rs' = "returned"
    /\ UNCHANGED <<rexc, rstop, ch, rmods, rtasks, rfailed, rsignal, rrestore, rorig>>
    /\ UNCHANGED notRun

\* the Runner as constructed
RunIdle ==
    /\ rs = "storage"
    /\ rexc = "none"
    /\ rstop = FALSE
    /\ ch = "none"
    /\ rmods = "none"
    /\ rtasks = "none"
    /\ rfailed = "none"
    /\ rsignal = FALSE
    /\ rrestore = "none"
    /\ rexit = -1

RunAtRest == RunIdle /\ rorig = TRUE

\* signal.getsignal(SIGINT) gave a handler, or None
InitRunner == RunIdle /\ rorig \in BOOLEAN

\* the steps of the main task
RunnerSteps ==
    \/ RStartup
    \/ RWait
    \/ RStopModules
    \/ RStopClickhouse
    \/ RStopTasks
    \/ RStopFinally
    \/ RExit

NextRunner ==
    \/ RunnerSteps
    \/ Signal

(***************************************************************************)
(* The cadence of _run_processor                                           *)
(***************************************************************************)
\* the largest configured interval, in units of the clock
MaxInterval == 2
\* the length of a run
MaxT == 8
\* the longest a process() call takes
MaxDur == 1

\* the variables the cadence part leaves alone
notCad == <<slotVars, crashVars, stateVars, modVars, stoVars, winVars, runVars, lastVars>>

\* _run_processor: wait_for(self._stop_event.wait(), timeout=interval)
WaitTimeout(interval, busy) == interval

\* the loop calls process()
CadInvoke ==
    /\ cpc = "call"
    /\ cn' = cn + 1
    /\ cbusy' = 0
    /\ cpc' = "work"
    /\ UNCHANGED <<cint, cclk, cdeadline>>
    /\ UNCHANGED notCad

\* process() returns or raises, and the loop starts its wait_for
CadFinish ==
    /\ cpc = "work"
    /\ cdeadline' = cclk + WaitTimeout(cint, cbusy)
    /\ cpc' = "wait"
    /\ UNCHANGED <<cint, cclk, cbusy, cn>>
    /\ UNCHANGED notCad

\* the wait_for times out: continue
CadTimeout ==
    /\ cpc = "wait"
    /\ cclk >= cdeadline
    /\ cpc' = "call"
    /\ UNCHANGED <<cint, cclk, cdeadline, cbusy, cn>>
    /\ UNCHANGED notCad

\* time passes while process() runs or while the loop waits
CadTick ==
    /\ cclk < MaxT
    /\ \/ cpc = "work" /\ cbusy < MaxDur
       \/ cpc = "wait" /\ cclk < cdeadline
    /\ cclk' = cclk + 1
    /\ cbusy' = IF cpc = "work" THEN cbusy + 1 ELSE cbusy
    /\ UNCHANGED <<cint, cpc, cdeadline, cn>>
    /\ UNCHANGED notCad

CadIdle ==
    /\ cclk = 0
    /\ cdeadline = 0
    /\ cbusy = 0
    /\ cn = 0

CadAtRest == CadIdle /\ cint = 1 /\ cpc = "none"

\* the task is created with some configured interval
InitCadence == CadIdle /\ cint \in 1..MaxInterval /\ cpc = "call"

NextCadence ==
    \/ CadInvoke
    \/ CadFinish
    \/ CadTimeout
    \/ CadTick

\* the parts added after the modules, as constructed
(***************************************************************************)
(* SlotProcessor.start called more than once on one processor              *)
(***************************************************************************)
\* number of start() calls made on the processor
MaxStarts == 2

Calls == 1..MaxStarts

\* no call holds the reference
NoRef == 0

notStart == <<slotVars, crashVars, stateVars, modVars, stoVars, winVars, runVars,
              cadVars, nameVars>>

\* the tasks of BaseProcessor._tasks that run phase p
TasksOf(p) == {t \in tasks : t.phase = p}

\* start(): _create_task for the head and the middle loop, each added to
\* _tasks, then "await self._middle_task"
PStart(i) ==
    /\ spos[i] = "none"
    /\ \A j \in Calls : j < i => spos[j] # "none"
    /\ ~pstopEv
    /\ tasks' = tasks \cup {[call |-> i, phase |-> "head"],
                            [call |-> i, phase |-> "middle"]}
    /\ tstate' = [tstate EXCEPT ![i]["head"] = "running",
                                ![i]["middle"] = "running"]
    /\ refs' = [refs EXCEPT !["head"] = i, !["middle"] = i]
    /\ spos' = [spos EXCEPT ![i] = "awaitMiddle"]
    /\ UNCHANGED <<pstopEv, nolast>>
    /\ UNCHANGED notStart

\* the middle loop of call i catches up, or finds the stop event set, and
\* returns; the done callback discards the task from _tasks
PMiddleReturns(i) ==
    /\ tstate[i]["middle"] = "running"
    /\ ~nolast
    /\ tstate' = [tstate EXCEPT ![i]["middle"] = "done"]
    /\ tasks' = tasks \ {[call |-> i, phase |-> "middle"]}
    /\ UNCHANGED <<spos, refs, pstopEv, nolast>>
    /\ UNCHANGED notStart

\* the middle task of call i loads a state without last_processed_slot and
\* raises ValueError
PMiddleRaises(i) ==
    /\ tstate[i]["middle"] = "running"
    /\ nolast
    /\ tstate' = [tstate EXCEPT ![i]["middle"] = "raised"]
    /\ tasks' = tasks \ {[call |-> i, phase |-> "middle"]}
    /\ UNCHANGED <<spos, refs, pstopEv, nolast>>
    /\ UNCHANGED notStart

\* the head or backlog loop of call i finds the stop event set and returns
PLoopReturns(i, p) ==
    /\ p \in {"head", "backlog"}
    /\ tstate[i][p] = "running"
    /\ pstopEv
    /\ tstate' = [tstate EXCEPT ![i][p] = "done"]
    /\ tasks' = tasks \ {[call |-> i, phase |-> p]}
    /\ UNCHANGED <<spos, refs, pstopEv, nolast>>
    /\ UNCHANGED notStart

\* a start() that creates the backlog task however the middle task ended
LaunchesBacklog_always(middle) == TRUE

\* start(): the except branches of "await self._middle_task" return, so the
\* backlog task is created after a middle task that returned only
LaunchesBacklog(middle) == middle = "done"

\* start() of call i after its await: CancelledError and any other exception
\* return, a completed middle task is followed by the backlog task
PResume(i) ==
    /\ spos[i] = "awaitMiddle"
    /\ tstate[i]["middle"] \in {"done", "cancelled", "raised"}
    /\ spos' = [spos EXCEPT ![i] = "returned"]
    /\ IF LaunchesBacklog(tstate[i]["middle"])
       THEN /\ tasks' = tasks \cup {[call |-> i, phase |-> "backlog"]}
            /\ tstate' = [tstate EXCEPT ![i]["backlog"] = "running"]
            /\ refs' = [refs EXCEPT !["backlog"] = i]
       ELSE UNCHANGED <<tasks, tstate, refs>>
    /\ UNCHANGED <<pstopEv, nolast>>
    /\ UNCHANGED notStart

\* stop(): sets the stop event, cancels the tasks _head_task, _middle_task
\* and _backlog_task hold, awaits them and clears the three fields.  The
\* head and backlog loops end on CancelledError, the middle loop re-raises
\* it, except that a wait_for whose event is already set may return normally.
PStop ==
    /\ ~pstopEv
    /\ spos[1] # "none"
    /\ pstopEv' = TRUE
    /\ \E midEnd \in {"cancelled", "done"} :
       LET held(i, p) == refs[p] = i /\ tstate[i][p] = "running" IN
       /\ tstate' = [i \in Calls |-> [p \in Phases |->
                        IF held(i, p)
                        THEN (IF p = "middle" THEN midEnd ELSE "done")
                        ELSE tstate[i][p]]]
       /\ tasks' = {t \in tasks : ~held(t.call, t.phase)}
    /\ refs' = [p \in Phases |-> NoRef]
    /\ UNCHANGED <<spos, nolast>>
    /\ UNCHANGED notStart

\* the processor as constructed
InitStart ==
    /\ tasks = {}
    /\ tstate = [i \in Calls |-> [p \in Phases |-> "none"]]
    /\ spos = [i \in Calls |-> "none"]
    /\ refs = [p \in Phases |-> NoRef]
    /\ pstopEv = FALSE
    /\ nolast \in BOOLEAN

NextStart ==
    \/ \E i \in Calls : PStart(i)
    \/ \E i \in Calls : PMiddleReturns(i)
    \/ \E i \in Calls : PMiddleRaises(i)
    \/ \E i \in Calls, p \in {"head", "backlog"} : PLoopReturns(i, p)
    \/ \E i \in Calls : PResume(i)
    \/ PStop

(***************************************************************************)
(* Node.extract_username                                                   *)
(***************************************************************************)
\* length of a client name, in symbols
MaxName == 3

\* a client name is a sequence of symbols: the token ethpandaops, the
\* slash, and two other pieces of text
Symbols == {"ethpandaops", "/", "alice", "x"}
Names == UNION {[1..n -> Symbols] : n \in 0..MaxName}

notName == <<slotVars, crashVars, stateVars, modVars, stoVars, winVars, runVars,
             cadVars, startVars>>

\* str.split("/"): the pieces between the slashes, empty ones included
RECURSIVE split(_)
split(s) ==
    IF \A i \in 1..Len(s) : s[i] # "/"
    THEN <<s>>
    ELSE LET i == CHOOSE k \in 1..Len(s) :
                      s[k] = "/" /\ \A j \in 1..(k - 1) : s[j] # "/"
         IN <<SubSeq(s, 1, i - 1)>> \o split(SubSeq(s, i + 1, Len(s)))

\* "ethpandaops" in name
HasToken(name) == \E i \in 1..Len(name) : name[i] = "ethpandaops"

\* Node.extract_username: fewer than two parts gives "", then the token
\* gives "ethpandaops", then parts[1]
extract_username(name) ==
    LET parts == split(name) IN
    IF Len(parts) < 2 THEN <<>>
    ELSE IF HasToken(name) THEN <<"ethpandaops">>
    ELSE parts[2]

ExtractUsername ==
    /\ upc = "init"
    /\ upc' = "done"
    /\ uresult' = extract_username(uname)
    /\ UNCHANGED uname
    /\ UNCHANGED notName

InitName ==
    /\ uname \in Names
    /\ uresult = <<>>
    /\ upc = "init"

NextName == ExtractUsername

NameAtRest ==
    /\ uname = <<>>
    /\ uresult = <<>>
    /\ upc = "init"

StartAtRest == InitStart /\ ~nolast

LastAtRest == StartAtRest /\ NameAtRest

RestAtRest == StoAtRest /\ WinAtRest /\ RunAtRest /\ CadAtRest /\ LastAtRest

(***************************************************************************)
(* Runner start-up, the periodic modules and Module.stop                   *)
(***************************************************************************)
\* the modules' interval, in units of the clock
Interval == 1
\* the last reading of the clock in a run
MaxClock == 2

\* the modules in the order in which _register_modules handles them
RunnerModules == <<"beacon_chain_timings", "xatu_public_contributors", "beacon">>
RMods == {RunnerModules[i] : i \in 1..3}

\* BeaconModule.__init__ calls BlocksProcessor(ctx) without network_name and
\* network: TypeError
ConstructorRaises(m) == m = "beacon"

\* Module.__init__ makes _tasks a set; XatuPublicContributorsModule and
\* BeaconModule replace it by a dictionary name -> task
TaskTable(m) == IF m = "beacon_chain_timings" THEN "set" ELSE "dict"

\* positions of a _run_processor task that has not ended
Live == {"loop", "work", "wait"}

\* should_process: never processed, or the interval has passed
Due(m) == lastProcessed[m] = 0 \/ now - lastProcessed[m] >= Interval

\* a _run_processor without the except around process()
LoopCatches_not == FALSE

\* _run_processor: except Exception around process(), logged
LoopCatches == TRUE

\* a process() that stamps last_processed in a finally block
UpdatesLastProcessed_always(ok) == TRUE

\* update_last_processed / update_state is the last statement of the work
UpdatesLastProcessed(ok) == ok

\* Runner.start moves on to the next module, then to the next stage
Advance(stage, next) ==
    IF ridx < 3
    THEN ridx' = ridx + 1 /\ rpc' = stage
    ELSE ridx' = 1 /\ rpc' = next

\* _register_modules: one _register_*_module call; it logs and re-raises,
\* Runner.start re-raises and stops
RegisterModule ==
    /\ rpc = "register"
    /\ LET m == RunnerModules[ridx] IN
       IF m \notin enabled
       THEN /\ Advance("register", "start")
            /\ UNCHANGED <<regd, failedMods>>
       ELSE \E ok \in BOOLEAN :
              IF ok /\ ~ConstructorRaises(m)
              THEN /\ regd' = regd \cup {m}
                   /\ Advance("register", "start")
                   /\ UNCHANGED failedMods
              ELSE /\ failedMods' = failedMods \cup {m}
                   /\ rpc' = "failed"
                   /\ UNCHANGED <<regd, ridx>>
    /\ UNCHANGED <<enabled, ptask, lastProcessed, iter, raised, mstop, mres, tracked, now>>
    /\ UNCHANGED <<slotVars, crashVars, stateVars, restVars>>

\* _start_modules: module.start() of one registered module; an exception is
\* logged and the loop continues
StartModule ==
    /\ rpc = "start"
    /\ LET m == RunnerModules[ridx] IN
       IF m \notin regd
       THEN UNCHANGED <<failedMods, ptask, tracked>>
       ELSE \E ok \in BOOLEAN :
              IF ok
              THEN /\ ptask' = [ptask EXCEPT ![m] = "loop"]
                   /\ tracked' = [tracked EXCEPT ![m] = TRUE]
                   /\ UNCHANGED failedMods
              ELSE /\ failedMods' = failedMods \cup {m}
                   /\ UNCHANGED <<ptask, tracked>>
    /\ Advance("start", "running")
    /\ UNCHANGED <<enabled, regd, lastProcessed, iter, raised, mstop, mres, now>>
    /\ UNCHANGED <<slotVars, crashVars, stateVars, restVars>>

\* _run_processor: the while test, then process() up to should_process
ProcBegin(m) ==
    /\ ptask[m] = "loop"
    /\ IF mstop[m]
       THEN ptask' = [ptask EXCEPT ![m] = "done"] /\ iter' = iter
       ELSE IF Due(m)
       THEN ptask' = [ptask EXCEPT ![m] = "work"] /\ iter' = [iter EXCEPT ![m] = "none"]
       ELSE ptask' = [ptask EXCEPT ![m] = "wait"] /\ iter' = [iter EXCEPT ![m] = "skipped"]
    /\ UNCHANGED <<enabled, rpc, ridx, regd, failedMods, lastProcessed, raised,
                   mstop, mres, tracked, now>>
    /\ UNCHANGED <<slotVars, crashVars, stateVars, restVars>>

\* process(): the work of the iteration and, last, the last_processed stamp
ProcWork(m) ==
    /\ ptask[m] = "work"
    /\ \E ok \in BOOLEAN :
         /\ lastProcessed' = [lastProcessed EXCEPT ![m] =
                                 IF UpdatesLastProcessed(ok) THEN now ELSE @]
         /\ iter' = [iter EXCEPT ![m] = IF ok THEN "ok" ELSE "raised"]
         /\ raised' = [raised EXCEPT ![m] = @ \/ ~ok]
         /\ ptask' = [ptask EXCEPT ![m] = IF ok \/ LoopCatches THEN "wait" ELSE "failed"]
    /\ UNCHANGED <<enabled, rpc, ridx, regd, failedMods, mstop, mres, tracked, now>>
    /\ UNCHANGED <<slotVars, crashVars, stateVars, restVars>>

\* wait_for(self._stop_event.wait(), timeout=interval) returns or times out
ProcWake(m) ==
    /\ ptask[m] = "wait"
    /\ ptask' = [ptask EXCEPT ![m] = "loop"]
    /\ UNCHANGED <<enabled, rpc, ridx, regd, failedMods, lastProcessed, iter, raised,
                   mstop, mres, tracked, now>>
    /\ UNCHANGED <<slotVars, crashVars, stateVars, restVars>>

ClockTick ==
    /\ now < MaxClock
    /\ now' = now + 1
    /\ UNCHANGED <<enabled, rpc, ridx, regd, failedMods, ptask, lastProcessed, iter,
                   raised, mstop, mres, tracked>>
    /\ UNCHANGED <<slotVars, crashVars, stateVars, restVars>>

\* Module.stop, called by Runner._stop_modules: set the stop event, then
\* "for task in self._tasks: task.cancel()", gather, clear.  Iterating the
\* dictionary of a module that keeps one yields its keys, and str has no
\* cancel: AttributeError leaves stop() before anything is cancelled
ModStop(m) ==
    /\ rpc \in {"running", "failed"}
    /\ m \in regd
    /\ mres[m] = "none"
    /\ mstop' = [mstop EXCEPT ![m] = TRUE]
    /\ IF TaskTable(m) = "dict" /\ tracked[m]
       THEN /\ mres' = [mres EXCEPT ![m] = "raised"]
            /\ UNCHANGED <<ptask, tracked>>
       ELSE /\ mres' = [mres EXCEPT ![m] = "returned"]
            /\ tracked' = [tracked EXCEPT ![m] = FALSE]
            /\ \E end \in {"cancelled", "done"} :
                 /\ (end = "done") => (ptask[m] = "wait")
                 /\ ptask' = [ptask EXCEPT ![m] = IF @ \in Live THEN end ELSE @]
    /\ UNCHANGED <<enabled, rpc, ridx, regd, failedMods, lastProcessed, iter, raised, now>>
    /\ UNCHANGED <<slotVars, crashVars, stateVars, restVars>>

\* the modules as constructed, before Runner.start
ModAtRest ==
    /\ rpc = "register"
    /\ ridx = 1
    /\ regd = {}
    /\ failedMods = {}
    /\ ptask = [m \in RMods |-> "none"]
    /\ lastProcessed = [m \in RMods |-> 0]
    /\ iter = [m \in RMods |-> "none"]
    /\ raised = [m \in RMods |-> FALSE]
    /\ mstop = [m \in RMods |-> FALSE]
    /\ mres = [m \in RMods |-> "none"]
    /\ tracked = [m \in RMods |-> FALSE]
    /\ now = 1

\* the parts driven by the other specifications have no module enabled
NoModule == enabled = {} /\ ModAtRest /\ RestAtRest

\* Runner.start with some configuration of enabled modules
ModInit ==
    /\ enabled \in (SUBSET RMods) \ {{}}
    /\ ModAtRest
    /\ NoCrash
    /\ StateAtRest
    /\ SlotAtRest
    /\ RestAtRest

NextModule ==
    \/ RegisterModule
    \/ StartModule
    \/ ClockTick
    \/ \E m \in RMods : ProcBegin(m)
    \/ \E m \in RMods : ProcWork(m)
    \/ \E m \in RMods : ProcWake(m)
    \/ \E m \in RMods : ModStop(m)

SpecModule == ModInit /\ [][NextModule]_vars

\* the slot processor, the state managers and the modules as constructed
CoreAtRest ==
    /\ SlotAtRest
    /\ NoCrash
    /\ StateAtRest
    /\ enabled = {}
    /\ ModAtRest

StorageInit == InitStorage /\ CoreAtRest /\ WinAtRest /\ RunAtRest /\ CadAtRest /\ LastAtRest

SpecStorage == StorageInit /\ [][NextStorage]_vars

WindowsInit == InitWindows /\ CoreAtRest /\ StoAtRest /\ RunAtRest /\ CadAtRest /\ LastAtRest

SpecWindows == WindowsInit /\ [][NextWindows]_vars

RunnerInit == InitRunner /\ CoreAtRest /\ StoAtRest /\ WinAtRest /\ CadAtRest /\ LastAtRest

SpecRunner == RunnerInit /\ [][NextRunner]_vars

\* the event loop keeps running the main task
FairRunner == SpecRunner /\ WF_vars(RunnerSteps)

CadenceInit == InitCadence /\ CoreAtRest /\ StoAtRest /\ WinAtRest /\ RunAtRest /\ LastAtRest

SpecCadence == CadenceInit /\ [][NextCadence]_vars

StartInit == InitStart /\ NameAtRest /\ CoreAtRest /\ StoAtRest /\ WinAtRest
             /\ RunAtRest /\ CadAtRest

SpecStart == StartInit /\ [][NextStart]_vars

NameInit == InitName /\ StartAtRest /\ CoreAtRest /\ StoAtRest /\ WinAtRest
            /\ RunAtRest /\ CadAtRest

SpecName == NameInit /\ [][NextName]_vars

\* the slot processor runs, the state managers stay as constructed
SlotInit == InitSlot /\ NoCrash /\ StateAtRest /\ NoModule

SpecSlot == SlotInit /\ [][NextSlot]_vars

\* the steps of the middle task
MiddleSteps ==
    \/ MiddleInit
    \/ MiddleBegin
    \/ Wake("middle")
    \/ Probe("middle")
    \/ Prereq("middle")
    \/ Secondary("middle")

\* the head and middle phases up to the end of the middle task; the backlog
\* task, which start() creates after the middle task has ended, is left
\* unscheduled
NextMiddle ==
    \/ StartCall
    \/ StartResume
    \/ Stop
    \/ Tick
    \/ HeadBegin
    \/ MiddleInit
    \/ MiddleBegin
    \/ \E p \in {"head", "middle"} : Wake(p)
    \/ \E p \in {"head", "middle"} : Probe(p)
    \/ \E p \in {"head", "middle"} : Prereq(p)
    \/ \E p \in {"head", "middle"} : Secondary(p)

\* the event loop keeps running the middle task
FairMiddle == SlotInit /\ [][NextMiddle]_vars /\ WF_vars(MiddleSteps)

SpecRestart == SlotInit /\ [][NextRestart]_vars

\* the state managers run, the slot processor stays as constructed
StateInit == InitState /\ NoCrash /\ SlotAtRest /\ NoModule

SpecState == StateInit /\ [][NextState]_vars

(***************************************************************************)
(* Claims about the slot processor (checked under SpecSlot)                *)
(***************************************************************************)
\* the step in which phase p gets the result of process_slot
Returns(p) == pc[p] \in InProcessSlot /\ pc'[p] = "sleep"

C3_PublishesFetchedSlot ==
    \A p \in Phases :
        (call[p].fetched = "all")
        => /\ call[p].ok
           /\ call[p].put
           /\ call[p].slot \in artifacts

\* C4: when process_slot fails in the backlog phase, current_slot is not
\* decremented and no advanced backward state is saved
C4_BacklogKeepsFailedSlot ==
    [][(Returns("backlog") /\ ~call'["backlog"].ok)
       => (bkCur' = bkCur /\ mem'["backward"] = mem["backward"])]_vars

\* C5: when process_slot fails in the middle phase, the phase moves on to
\* current_slot + 1
C5_MiddleSkipsFailedSlot ==
    [][(Returns("middle") /\ ~call'["middle"].ok)
       => midCur' = midCur + 1]_vars

\* the middle phase had a failing slot, went past it and ran to completion
C5_Witness ==
    /\ pc["middle"] = "done"
    /\ ~stopEv
    /\ call["middle"].slot # -1
    /\ ~call["middle"].ok
    /\ midCur = call["middle"].slot + 1

\* C6: start() launches the head phase first and it keeps running; the
\* backlog task exists only once the middle task has ended
C6_BacklogAfterMiddle ==
    /\ (pc["middle"] # "none") => (pc["head"] # "none")
    /\ (startPc # "init" /\ ~stopEv) => (pc["head"] \in Running)
    /\ (pc["backlog"] # "none") => (pc["middle"] \in {"done", "cancelled"})

\* the backlog phase is processing a slot next to the running head phase,
\* the middle phase having completed
C6_Witness ==
    /\ pc["backlog"] \in InProcessSlot
    /\ pc["head"] \in InProcessSlot
    /\ pc["middle"] = "done"
    /\ ~stopEv

(***************************************************************************)
(* Claims about the state managers, store_atomic and Runner.stop (checked  *)
(* under SpecState)                                                        *)
(***************************************************************************)
\* the step in which the flush of module m writes state.json
WritesState(m) == fpc[m] = "copy" /\ fpc'[m] = "delete"

\* the step in which the store_atomic call of module m returns without raising
ReturnsOk(m) == fpc[m] = "delete" /\ fpc'[m] = "idle"

\* C7: when the flushes of two modules overlap and both have completed,
\* state.json holds both modules' sub-maps, each equal to the in-memory map
\* its module flushed
C7_BothSubmapsSurvive ==
    (\A m \in Mods : fpc[m] = "idle" /\ fres[m] = "ok" /\ fgot[m] /\ overlap[m])
    => \A m \in Mods : SubMap(store[FinalKey], m) = fdoc[m][m]

\* C8: a flush of module m that writes state.json leaves every other
\* module's sub-map as it was in the stored document, whatever the outcome
\* of the flush's download
C8_FlushFramesOthers ==
    [][\A m \in Mods :
          (WritesState(m) /\ ~overlap[m])
          => \A o \in Mods \ {m} :
                SubMap(store'[FinalKey], o) = SubMap(store[FinalKey], o)]_vars

\* C9: once Runner.stop has completed no flush task is running and every
\* module's sub-map in state.json equals its in-memory map
C9_ShutdownFlushesAll ==
    (runner = "stopped")
    => /\ \A m \in Mods : fpc[m] = "cancelled"
       /\ \A m \in Mods : SubMap(store[FinalKey], m) = smem[m]

C11_ReaderSeesCompleteBody ==
    [][/\ store'[FinalKey] # NoObj
       /\ store'[FinalKey].ContentEncoding = "gzip"
       /\ json_loads_ok(Get(store'[FinalKey]))
       /\ (store'[FinalKey] # store[FinalKey])
          => /\ \E m \in Mods : WritesState(m)
             /\ store'[FinalKey] = CopyObject(store[TempKey])
             /\ \E d \in Docs : store[TempKey] = Upload(json_dumps(d))]_vars

\* a store_atomic call is between its copy and its delete: state.json already
\* reads as the new document while temp/state.json still exists
C11_Witness ==
    \E m \in Mods :
        /\ fpc[m] = "delete"
        /\ fdoc[m][m] = 1
        /\ Get(store[FinalKey]) = json_dumps(fdoc[m])
        /\ store[TempKey] # NoObj

\* C12: an artifact key comes into existence only in a process_slot call
\* whose nine fetches all succeeded; a call in which a secondary fetch fails
\* returns error, issues no put and publishes nothing
C12_NoPartialArtifact ==
    [][/\ \A p \in Phases :
             (Returns(p) /\ call'[p].fetched = "secondary_failed")
             => /\ ~call'[p].ok
                /\ ~call'[p].put
                /\ artifacts' = artifacts
                /\ puts' = puts
       /\ (artifacts' # artifacts)
          => \E p \in Phases :
                /\ Returns(p)
                /\ call'[p].fetched = "all"
                /\ artifacts' = artifacts \cup {call'[p].slot}]_vars

\* a call on an absent key got its block and proposer rows, lost one of the
\* secondary fetches and returned error; the key is still absent
C12_Witness ==
    \E p \in Phases :
        /\ pc[p] = "sleep"
        /\ call[p].fetched = "secondary_failed"
        /\ ~call[p].ok
        /\ call[p].slot \notin artifacts

C14_SavesAreMonotone ==
    [][/\ (mem["backward"] # NoState /\ mem'["backward"] # mem["backward"])
          => mem'["backward"].current_slot < mem["backward"].current_slot
       /\ (mem["middle"] # NoState /\ mem'["middle"] # mem["middle"])
          => mem'["middle"].last_processed_slot > mem["middle"].last_processed_slot
       /\ Returns("backlog")
          => mem'["backward"].current_slot < mem["backward"].current_slot
       /\ (Returns("middle") /\ MiddleSaves(call'["middle"].ok))
          => mem'["middle"].last_processed_slot > mem["middle"].last_processed_slot]_vars

\* both keys were saved again after their initial save: the middle phase
\* went past a published slot, the backlog phase past its first slot
C14_Witness ==
    /\ pc["middle"] = "done"
    /\ call["middle"].ok
    /\ mem["middle"].last_processed_slot = call["middle"].slot + 1
    /\ pc["backlog"] = "sleep"
    /\ call["backlog"].slot # -1
    /\ mem["backward"].current_slot = call["backlog"].slot - 1

\* C19: once SlotProcessor.stop() has returned, none of the three phase
\* tasks is running, no new phase task is launched, no process_slot call is
\* made and no state is saved, also when start() was still awaiting the
\* middle phase
C19_NothingRunsAfterStop ==
    [][stopEv
       => /\ \A p \in Phases : pc'[p] \notin Running
          /\ mem' = mem
          /\ call' = call]_vars

(***************************************************************************)
(* Claims about kill and restart (checked under SpecRestart)               *)
(***************************************************************************)
\* C15: after a kill and restart the backlog phase resumes from the backward
\* current_slot that state.json holds, not from the wall clock, and its
\* cursor is never more than one below the lowest slot it has attempted: no
\* slot between its start and its target is passed over without an attempt
C15_BacklogResumesFromDisk ==
    [][/\ (pc["backlog"] = "init" /\ pc'["backlog"] = "loop"
           /\ disk["backward"] # NoState)
          => bkCur' = disk["backward"].current_slot
       /\ (pc'["backlog"] \in (Running \ {"init"}) /\ bkLow' # None)
          => bkCur' >= bkLow' - 1]_vars

\* the process was killed after the backlog phase had gone below a flushed
\* current_slot; restarted, the phase has attempted again a slot above the
\* lowest one it had reached
C15_Witness ==
    /\ crashed > 0
    /\ disk["backward"] # NoState
    /\ pc["backlog"] = "sleep"
    /\ call["backlog"].slot > bkLow
    /\ call["backlog"].slot < wall - HeadLag

\* C16: an exception raised by process() never ends the driving loop: the
\* task goes on to its wait, a task ends only once the stop signal is set,
\* and a loop that finds the stop signal unset invokes process() again
C16_RaiseKeepsLoopAlive ==
    [][\A m \in RMods :
         /\ (ptask[m] = "work" /\ iter'[m] = "raised") => ptask'[m] = "wait"
         /\ (ptask'[m] \notin Live \cup {"none"}) => mstop'[m]
         /\ (ptask[m] = "loop" /\ ~mstop'[m] /\ ptask'[m] # "loop")
               => (ptask'[m] = "work" \/ iter'[m] = "skipped")]_vars

\* a processor raised, the stop signal is unset, and process() is at work again
C16_Witness ==
    \E m \in RMods : raised[m] /\ ptask[m] = "work" /\ ~mstop[m]

\* C17: last_processed is written only by an iteration whose work completed
\* without raising, and then to the current time; an iteration that raises
\* leaves it unchanged, so the work is still due
C17_StampOnlyAfterSuccess ==
    [][\A m \in RMods :
         /\ (lastProcessed'[m] # lastProcessed[m])
               => (ptask[m] = "work" /\ iter'[m] = "ok" /\ lastProcessed'[m] = now)
         /\ (ptask[m] = "work" /\ iter'[m] = "raised")
               => (lastProcessed'[m] = lastProcessed[m] /\ Due(m)')]_vars

\* an iteration raised, and the retry completed and stamped last_processed
C17_Witness ==
    \E m \in RMods : raised[m] /\ iter[m] = "ok" /\ lastProcessed[m] = now

\* C18: for every module, stop() sets the stop signal, cancels every task the
\* module spawned, returns without raising only after all of them ended, and
\* leaves the tracked-task collection empty; with the stop signal set no loop
\* starts another process() iteration
C18_StopCancelsAndAwaitsAll ==
    [][\A m \in RMods :
         /\ (mres[m] = "none" /\ mres'[m] # "none")
               => /\ mstop'[m]
                  /\ mres'[m] = "returned"
                  /\ ptask'[m] \notin Live
                  /\ ~tracked'[m]
         /\ (mstop[m] /\ ptask[m] = "loop") => ptask'[m] \notin {"work", "wait"}]_vars

\* C20: when registering or starting one enabled module raises, every other
\* enabled module is still registered and started by the Runner
C20_OthersStillStart ==
    (rpc \in {"running", "failed"})
       => \A m \in enabled \ failedMods : m \in regd /\ ptask[m] # "none"

\* C28: the middle phase saves {last_processed_slot, target_slot,
\* direction=middle} after every slot attempt, the successful ones and the
\* ones skipped because process_slot failed
C28_MiddleSavesEveryAttempt ==
    [][(pc["middle"] \in InProcessSlot /\ pc'["middle"] = "sleep")
          => mem'["middle"] = SlotProcessorState(midTarget, None, "middle", midCur')]_vars

\* C29: with no persisted middle state the middle phase starts at
\* head_target - 300 with target_slot = head_target, and attempts the slots in
\* increasing order one at a time
C29_MiddleStartsOneSpanBack ==
    [][/\ (pc["middle"] = "init" /\ mem["middle"] = NoState /\ pc'["middle"] = "loop")
            => /\ midTarget' = wall - HeadLag
               /\ midCur' = (wall - HeadLag) - MiddleSpan
       /\ (pc["middle"] \in InProcessSlot /\ pc'["middle"] = "sleep")
            => midCur' = midCur + 1]_vars

\* C30: no step of the head phase changes the phase state held by the state
\* manager, whatever process_slot returns; the head loop goes on to its
\* sleep and takes its next target from the wall clock
C30_HeadWritesNoState ==
    [][/\ (pc'["head"] # pc["head"] \/ call'["head"] # call["head"]) => mem' = mem
       /\ (pc["head"] \in InProcessSlot /\ pc'["head"] \notin InProcessSlot /\ stopEv' = stopEv)
            => pc'["head"] = "sleep"
       /\ (pc["head"] = "loop" /\ pc'["head"] = "probe") => headSlot' = wall - HeadLag]_vars

\* the block query of the head target returned no rows, and the head loop
\* is about to run its next iteration
C30_Witness ==
    /\ call["head"].fetched = "prereq_failed"
    /\ pc["head"] = "loop"
    /\ ~stopEv

\* C23: within store_atomic the copy is attempted at most 5 times; it returns
\* on the first successful attempt, waits 1 s, 2 s, 4 s and 8 s after the 1st
\* to 4th failed attempts and raises after the 5th without a further wait;
\* upload, get, delete and exists send one request per call
C23_CopyRetriesOthersOnce ==
    /\ reqs["copy"] <= reqs["head"] /\ reqs["head"] <= MaxRetries
    /\ Len(sleeps) = sattempt
    /\ \A i \in 1..Len(sleeps) : sleeps[i] = 2 ^ (i - 1)
    /\ (spc = "copy") => reqs["head"] = sattempt
    /\ (spc = "backoff") => reqs["head"] = sattempt + 1 /\ sattempt < MaxRetries - 1
    /\ (sop = "store_atomic" /\ (spc = "delete" \/ sres = "ok" \/ sfail = "delete"))
          => reqs["head"] = Len(sleeps) + 1 /\ reqs["copy"] >= 1
    /\ (sfail = "copy") => reqs["head"] = MaxRetries /\ sleeps = <<1, 2, 4, 8>>
    /\ (sop = "store_atomic" /\ spc # "upload") => reqs["put"] = 1
    /\ (sop = "store_atomic" /\ sres # "none")
          => reqs["delete"] = (IF sfail = "delete" THEN 2 ELSE 1) /\ reqs["get"] = 0
    /\ (sop = "store" /\ sres # "none") => reqs = [NoRequests EXCEPT !["put"] = 1]
    /\ (sop = "get" /\ sres # "none") => reqs = [NoRequests EXCEPT !["get"] = 1]
    /\ (sop = "delete" /\ sres # "none") => reqs = [NoRequests EXCEPT !["delete"] = 1]
    /\ (sop = "exists" /\ sres # "none") => reqs = [NoRequests EXCEPT !["head"] = 1]

\* the copy failed five times: store_atomic raised after the four waits
C23_Witness ==
    /\ sop = "store_atomic"
    /\ sres = "err"
    /\ sfail = "copy"
    /\ sleeps = <<1, 2, 4, 8>>

\* C24: StateManager.start with state.json absent writes a document without
\* data and starts; with state.json present it loads its own sub-map (empty
\* when the document has none) and leaves the bucket as it was; on any other
\* error of the fetch it raises, has written nothing and has no flush task
C24_StartLoadsOrCreates ==
    (stpc \in {"started", "raised"}) =>
       /\ sflush = (stpc = "started")
       /\ (sget = "NoSuchKey") =>
             /\ sbefore[FinalKey] = NoObj
             /\ reqs["put"] = 1
             /\ (stpc = "started") =>
                   /\ bucket[FinalKey] # NoObj
                   /\ \A m \in Mods : SubMap(bucket[FinalKey], m) \in {Missing, 0}
       /\ (sget = "ok") =>
             /\ stpc = "started"
             /\ sbefore[FinalKey] # NoObj
             /\ sstate = (IF SubMap(sbefore[FinalKey], sname) = Missing
                          THEN 0 ELSE SubMap(sbefore[FinalKey], sname))
             /\ bucket = sbefore
       /\ (sget \in {"err", "undecodable"}) =>
             /\ stpc = "raised"
             /\ bucket = sbefore
             /\ reqs["put"] = 0
       /\ (sbefore[FinalKey] = NoObj) => sget \in {"NoSuchKey", "err"}
       /\ (sbefore[FinalKey] # NoObj) => sget \in {"ok", "undecodable", "err"}

\* start() found state.json of an earlier run that holds data of the other
\* module only, and loaded an empty sub-map
C24_Witness ==
    /\ stpc = "started"
    /\ sget = "ok"
    /\ sstate = 0
    /\ \E o \in Mods : o # sname /\ SubMap(bucket[FinalKey], o) = MaxVer

\* C25: with F the earliest vote time, every published window starts at
\* F + 50k for an integer k >= 0 and ends 50 ms later, and a validator seen
\* at time t is in the window with start_ms <= t < end_ms
C25_WindowsAnchoredAtFloor ==
    (wpc = "done" /\ votes # NoVotes) =>
       \A k \in 1..Len(windows) :
          LET w == windows[k] IN
          /\ w.start_ms >= FloorTime(votes)
          /\ (w.start_ms - FloorTime(votes)) % WindowMs = 0
          /\ w.end_ms = w.start_ms + WindowMs
          /\ \A j \in 1..Len(w.validator_indices) :
                LET t == votes[w.validator_indices[j]]
                IN w.start_ms <= t /\ t < w.end_ms

\* C26: the windows partition the votes: every validator of the input is in
\* exactly one window, no window holds another index, the indices of a
\* window are strictly ascending, and no window is empty
C26_WindowsPartitionVotes ==
    (wpc = "done") =>
       /\ \A i \in DOMAIN votes :
             Cardinality({<<k, j>> \in (1..Len(windows)) \X (1..MaxValidator) :
                             /\ j <= Len(windows[k].validator_indices)
                             /\ windows[k].validator_indices[j] = i}) = 1
       /\ \A k \in 1..Len(windows) :
             LET ids == windows[k].validator_indices IN
             /\ Len(ids) >= 1
             /\ \A j \in 1..Len(ids) : ids[j] \in DOMAIN votes
             /\ \A j \in 1..(Len(ids) - 1) : ids[j] < ids[j + 1]

\* four votes fell into two windows of two validators each
C26_Witness ==
    /\ wpc = "done"
    /\ Len(windows) = 2
    /\ \A k \in 1..2 : Len(windows[k].validator_indices) = 2

\* C27: with interval I, the number n of process() invocations of a run of
\* duration T satisfies floor(T/I) <= n <= ceil(T/I) + 1; T is read while
\* process() runs or while the loop waits for its timeout
C27_InvocationsTrackInterval ==
    (cpc = "work" \/ (cpc = "wait" /\ cclk < cdeadline)) =>
       /\ cclk \div cint <= cn
       /\ cn <= ((cclk + cint - 1) \div cint) + 1

\* what Runner.stop leaves behind when it has run through: no registered
\* module unstopped, the warehouse client closed unless its close raised, and
\* then no other task running
StopSequenceRan ==
    /\ rmods \notin {"registered", "started"}
    /\ ch \notin {"created", "started"}
    /\ (ch # "close_failed") => rtasks # "running"

\* C21: when a start-up step of Runner.start raises, the stop sequence runs
\* for what was started, the error reaches the caller, which exits with
\* code 1, and the Runner never waits for the stop signal afterwards
C21_FailedStartupStopsAndExits1 ==
    (rfailed # "none") =>
       /\ rs \notin Startup \cup {"wait"}
       /\ rexc = "Exception"
       /\ (rs = "returned") => (rexit = 1 /\ StopSequenceRan)

\* the network catalog failed to initialise: the started warehouse client
\* was stopped and the process exited with 1
C21_Witness ==
    /\ rfailed = "networks"
    /\ rs = "returned"
    /\ ch = "stopped"
    /\ rexit = 1

C31_HeadOncePerSlot ==
    [][(pc["head"] = "loop" /\ pc'["head"] = "probe")
         => /\ headSlot' = wall - HeadLag
            /\ headSlot' # headSlot]_vars

(***************************************************************************)
(* C32: when a step of store_atomic raises (the upload to temp/<key>, the  *)
(* copy after its last attempt, the delete of temp/<key>), a delete of     *)
(* temp/<key> is issued, the call ends with the error whether that delete  *)
(* succeeded or not, and when the step that raised came before a           *)
(* successful copy the object under the final key is the one the call      *)
(* found.                                                                  *)
(***************************************************************************)
C32_FailureCleansUpAndRaises ==
    (sop = "store_atomic" /\ sfail # "none")
        => /\ spc \in {"cleanup", "idle"}
           /\ spc = "idle" =>
                /\ sres = "err"
                /\ reqs["delete"] = IF sfail = "delete" THEN 2 ELSE 1
           /\ sfail \in {"upload", "copy"} => bucket[FinalKey] = sbefore[FinalKey]
           /\ sfail = "copy" => reqs["copy"] + reqs["head"] >= MaxRetries

\* the copy failed at every attempt, the cleanup delete failed too, and the
\* call has ended: the temp object is still there
C32_Witness ==
    /\ sop = "store_atomic"
    /\ spc = "idle"
    /\ sfail = "copy"
    /\ sres = "err"
    /\ bucket[TempKey] # NoObj
    /\ reqs["delete"] = 1

(***************************************************************************)
(* C33: a periodic flush that fails leaves the in-memory map as it was and *)
(* the flush loop alive, waiting for its next tick; when a flush, the one  *)
(* of a later tick included, returns without raising, state.json holds     *)
(* the in-memory map of the module.                                        *)
(***************************************************************************)
C33_FailedFlushIsRetried ==
    [][\A m \in Mods :
          /\ (fres[m] # "err" /\ fres'[m] = "err")
             => (smem' = smem /\ fpc'[m] = "idle")
          /\ (fres[m] # "ok" /\ fres'[m] = "ok")
             => SubMap(store'[FinalKey], m) = smem'[m]]_vars

(***************************************************************************)
(* C38: when store_atomic calls for state.json overlap, a call that        *)
(* writes the final key writes the bytes it was given, and no attempt of   *)
(* its copy fails unless the object store failed the request.              *)
(***************************************************************************)
C38_OverlappingPutsKeepOwnBytes ==
    [][\A m \in Mods :
          /\ WritesState(m)
             => store'[FinalKey] = CopyObject(Upload(json_dumps(fdoc[m])))
          /\ /\ fpc[m] = "copy"
             /\ \/ fpc'[m] = "cleanup"
                \/ fpc'[m] = "copy" /\ attempt'[m] = attempt[m] + 1
             => faults' = faults + 1]_vars

(***************************************************************************)
(* C34: start() is idempotent: a second start() call on a started          *)
(* processor creates no task, so the processor never has more than one     *)
(* head task, one middle task and one backlog task.                        *)
(***************************************************************************)
C34_OneTaskPerPhase == \A p \in Phases : Cardinality(TasksOf(p)) <= 1

(***************************************************************************)
(* C35: extract_username(name) is "ethpandaops" when name contains the     *)
(* token ethpandaops, otherwise the second slash-separated segment of      *)
(* name, otherwise (a name without a slash) the empty string.              *)
(***************************************************************************)
C35_UsernameFromName ==
    (upc = "done")
    => uresult = IF HasToken(uname) THEN <<"ethpandaops">>
                 ELSE IF Len(split(uname)) >= 2 THEN split(uname)[2]
                 ELSE <<>>

(***************************************************************************)
(* C40: when the middle task of a start() call ends cancelled or by        *)
(* raising, that call creates no backlog task; on a processor started      *)
(* once no backlog task exists from then on; the head task of the call     *)
(* keeps running while the stop event is not set.                          *)
(***************************************************************************)
C40_NoBacklogAfterFailedMiddle ==
    \A i \in Calls :
        tstate[i]["middle"] \in {"cancelled", "raised"}
        => /\ tstate[i]["backlog"] = "none"
           /\ (\A j \in Calls \ {i} : spos[j] = "none") => TasksOf("backlog") = {}
           /\ ~pstopEv => tstate[i]["head"] = "running"

\* the stored middle state lacks last_processed_slot: the middle task of the
\* only start() call has raised, start() has returned, the head task runs
C40_Witness ==
    /\ nolast
    /\ tstate[1]["middle"] = "raised"
    /\ spos[1] = "returned"
    /\ spos[2] = "none"
    /\ tstate[1]["head"] = "running"
    /\ ~pstopEv

(***************************************************************************)
(* C36: the mutex of a StateManager is not held while its flush is         *)
(* suspended in an object-store call or a sleep of store_atomic, so a set  *)
(* of the module is not kept waiting by a flush in progress.               *)
(***************************************************************************)
C36_NoLockAcrossSuspension ==
    \A m \in Mods : fpc[m] \in InAtomic => ~LockHeld(m)

(***************************************************************************)
(* C39: the backlog phase calls process_slot on slots strictly above its   *)
(* target slot only; once its current slot has come down to the target it  *)
(* no longer decrements it, calls process_slot no more and saves no state. *)
(***************************************************************************)
C39_BacklogStopsAtTarget ==
    [][/\ (pc["backlog"] = "loop" /\ pc'["backlog"] = "probe")
          => bkCur > BacklogTarget
       /\ (pc["backlog"] \in {"loop", "sleep"} /\ bkCur <= BacklogTarget)
          => /\ bkCur' = bkCur
             /\ mem'["backward"] = mem["backward"]
             /\ pc'["backlog"] \in {"loop", "sleep", "done"}]_vars

\* the backlog phase has worked its way down to the target: its last call was
\* for the slot above the target, and it sleeps without work
C39_Witness ==
    /\ pc["backlog"] = "sleep"
    /\ bkCur = BacklogTarget
    /\ bkLow = BacklogTarget + 1
    /\ mem["backward"].current_slot = BacklogTarget
    /\ call["backlog"].slot = BacklogTarget + 1
    /\ ~stopEv

====
